---- MODULE Spec2Model ----
(***************************************************************************)
(* go-sudoku (go.rumenx.com/sudoku): validator, backtracking solver,       *)
(* uniqueness counter, generator and string codec, for the fixed 9x9       *)
(* Board (sudoku.go, parse.go) and the general Grid (grid.go).             *)
(*                                                                         *)
(* A call of an exported function is a run of the state machine: Init      *)
(* holds the arguments, the actions are the steps of the call, and ret     *)
(* holds what the call returned once pc = "done".                          *)
(***************************************************************************)
EXTENDS Integers, Sequences, FiniteSets, TLC

(***************************************************************************)
(* Bounds of the explored inputs.                                          *)
(***************************************************************************)
\* most non-zero cells of a sparse input grid
MaxClues == 2
\* most cells given in a 3x3 input grid of a search
MaxGivens == 3
\* most cells emptied in a solved grid
MaxEmpty == 4
\* a Perm(n) with n up to FullPermN is any permutation
FullPermN == 4
\* most cells a receiver of Generate holds
MaxReceiverCells == 2
\* a longer Perm(n) of a seed is one of the rotations by 0..MaxRot
MaxRot == 0
\* a longer Perm(n) of a removal order is one of the rotations by 0..MaxOrderRot
MaxOrderRot == 1
\* largest attempts argument of Generate
MaxAttempts == 2

(***************************************************************************)
(* Values of the Go program.                                               *)
(***************************************************************************)
\* a nil error
Nil == "nil"
\* var ErrInvalidBoard = errors.New("invalid board")
ErrInvalidBoard == "invalid board"
\* a variable the running call does not use
None == "-"

\* type Board [9][9]int: b[r][c] with r, c in 0..8
ZeroCells(n) == [r \in 0..(n - 1) |-> [c \in 0..(n - 1) |-> 0]]
\* Board{}: the zero value
ZeroBoard == ZeroCells(9)
\* type Grid struct { Size, BoxRows, BoxCols int; Cells [][]int }
MkGrid(size, boxRows, boxCols, cells) ==
    [Size |-> size, BoxRows |-> boxRows, BoxCols |-> boxCols, Cells |-> cells]
\* Grid{}: the zero value (Cells is a nil slice)
ZeroGrid == MkGrid(0, 0, 0, <<>>)

\* const MaxGridSize = 25
MaxGridSize == 25

\* NewGrid without the test against MaxGridSize
NewGrid_anySize(size, boxRows, boxCols) ==
    IF size <= 0 \/ boxRows <= 0 \/ boxCols <= 0 \/ size # boxRows * boxCols
    THEN <<ZeroGrid, "invalid dimensions">>
    ELSE <<MkGrid(size, boxRows, boxCols, ZeroCells(size)), Nil>>

\* the pair (Grid, error) NewGrid returns
NewGrid(size, boxRows, boxCols) ==
    IF size <= 0 \/ boxRows <= 0 \/ boxCols <= 0 \/ size # boxRows * boxCols
    THEN <<ZeroGrid, "invalid dimensions">>
    ELSE IF size > MaxGridSize
    THEN <<ZeroGrid, "grid size exceeds maximum allowed">>
    ELSE <<MkGrid(size, boxRows, boxCols, ZeroCells(size)), Nil>>

\* cells with cell (r, c) set to v
SetCell(cells, r, c, v) == [cells EXCEPT ![r][c] = v]

(***************************************************************************)
(* Validate (sudoku.go) and Grid.Validate (grid.go).                       *)
(***************************************************************************)
\* the inner loop over j of line i: TRUE iff it returns ErrInvalidBoard.
\* row and col are the values whose row[v] / col[v] flag is set.
RECURSIVE Validate_scan(_, _, _, _, _)
Validate_scan(brd, i, j, row, col) ==
    IF j >= 9 THEN FALSE
    ELSE LET rv == brd[i][j]
             cv == brd[j][i]
         IN  IF rv < 0 \/ rv > 9 \/ cv < 0 \/ cv > 9 THEN TRUE
             ELSE IF rv # 0 /\ rv \in row THEN TRUE
             ELSE IF cv # 0 /\ cv \in col THEN TRUE
             ELSE Validate_scan(brd, i, j + 1,
                                IF rv # 0 THEN row \cup {rv} ELSE row,
                                IF cv # 0 THEN col \cup {cv} ELSE col)

\* the scan of the 3x3 box at (br, bc), cell k of it in r, c order
RECURSIVE Validate_box(_, _, _, _, _)
Validate_box(brd, br, bc, k, seen) ==
    IF k >= 9 THEN FALSE
    ELSE LET v == brd[br + (k \div 3)][bc + (k % 3)]
         IN  IF v # 0 /\ v \in seen THEN TRUE
             ELSE Validate_box(brd, br, bc, k + 1,
                               IF v # 0 THEN seen \cup {v} ELSE seen)

\* a faulty variant: the box scan left out
Validate_noBoxes(brd) ==
    IF \E i \in 0..8 : Validate_scan(brd, i, 0, {}, {})
    THEN ErrInvalidBoard ELSE Nil

Validate(brd) ==
    IF \E i \in 0..8 : Validate_scan(brd, i, 0, {}, {})
    THEN ErrInvalidBoard
    ELSE IF \E br \in {0, 3, 6}, bc \in {0, 3, 6} : Validate_box(brd, br, bc, 0, {})
    THEN ErrInvalidBoard
    ELSE Nil

RECURSIVE Grid_Validate_scan(_, _, _, _, _)
Grid_Validate_scan(gr, i, j, row, col) ==
    IF j >= gr.Size THEN FALSE
    ELSE LET rv == gr.Cells[i][j]
             cv == gr.Cells[j][i]
         IN  IF rv < 0 \/ rv > gr.Size \/ cv < 0 \/ cv > gr.Size THEN TRUE
             ELSE IF rv # 0 /\ rv \in row THEN TRUE
             ELSE IF cv # 0 /\ cv \in col THEN TRUE
             ELSE Grid_Validate_scan(gr, i, j + 1,
                                     IF rv # 0 THEN row \cup {rv} ELSE row,
                                     IF cv # 0 THEN col \cup {cv} ELSE col)

\* the scan of the BoxRows x BoxCols box at (br, bc), cell k of it in r, c order
RECURSIVE Grid_Validate_box(_, _, _, _, _)
Grid_Validate_box(gr, br, bc, k, seen) ==
    IF k >= gr.BoxRows * gr.BoxCols THEN FALSE
    ELSE LET v == gr.Cells[br + (k \div gr.BoxCols)][bc + (k % gr.BoxCols)]
         IN  IF v # 0 /\ v \in seen THEN TRUE
             ELSE Grid_Validate_box(gr, br, bc, k + 1,
                                    IF v # 0 THEN seen \cup {v} ELSE seen)

\* the box origins: for x := 0; x < s; x += step
Grid_boxStarts(s, step) == {x \in 0..(s - 1) : x % step = 0}

Grid_Validate(gr) ==
    IF \E i \in 0..(gr.Size - 1) : Grid_Validate_scan(gr, i, 0, {}, {})
    THEN ErrInvalidBoard
    ELSE IF \E br \in Grid_boxStarts(gr.Size, gr.BoxRows),
               bc \in Grid_boxStarts(gr.Size, gr.BoxCols) :
                   Grid_Validate_box(gr, br, bc, 0, {})
    THEN ErrInvalidBoard
    ELSE Nil

(***************************************************************************)
(* The search helpers: findEmpty and isSafe (sudoku.go), Grid.findEmpty    *)
(* and Grid.isSafe (grid.go).                                              *)
(***************************************************************************)
\* the first cell holding 0 in row-major order: (r, c, true), or (0, 0, false).
\* The loop over r from row r on; the loop over c stops at the first 0 of the row.
RECURSIVE findEmpty_from(_, _)
findEmpty_from(brd, r) ==
    IF r >= 9 THEN [r |-> 0, c |-> 0, ok |-> FALSE]
    ELSE LET zeros == {c \in 0..8 : brd[r][c] = 0}
         IN  IF zeros # {}
             THEN [r |-> r, c |-> CHOOSE c \in zeros : \A c2 \in zeros : c <= c2, ok |-> TRUE]
             ELSE findEmpty_from(brd, r + 1)

findEmpty(brd) == findEmpty_from(brd, 0)

\* a faulty variant: the 3x3 box not looked at
isSafe_noBox(brd, r, c, v) ==
    ~\E i \in 0..8 : brd[r][i] = v \/ brd[i][c] = v

isSafe(brd, r, c, v) ==
    /\ ~\E i \in 0..8 : brd[r][i] = v \/ brd[i][c] = v
    /\ LET br == (r \div 3) * 3
           bc == (c \div 3) * 3
       IN  ~\E i \in 0..2, j \in 0..2 : brd[br + i][bc + j] = v

\* w is the grid searched; the receiver gr gives the dimensions
RECURSIVE Grid_findEmpty_from(_, _, _)
Grid_findEmpty_from(gr, w, r) ==
    IF r >= gr.Size THEN [r |-> 0, c |-> 0, ok |-> FALSE]
    ELSE LET zeros == {c \in 0..(gr.Size - 1) : w.Cells[r][c] = 0}
         IN  IF zeros # {}
             THEN [r |-> r, c |-> CHOOSE c \in zeros : \A c2 \in zeros : c <= c2, ok |-> TRUE]
             ELSE Grid_findEmpty_from(gr, w, r + 1)

\* a faulty variant: the first empty cell column by column
Grid_findEmpty_columnMajor(gr, w) ==
    LET zeros == {p \in (0..(gr.Size - 1)) \X (0..(gr.Size - 1)) : w.Cells[p[1]][p[2]] = 0}
    IN  IF zeros = {} THEN [r |-> 0, c |-> 0, ok |-> FALSE]
        ELSE LET p == CHOOSE p \in zeros :
                          \A q \in zeros : p[2] < q[2] \/ (p[2] = q[2] /\ p[1] <= q[1])
             IN  [r |-> p[1], c |-> p[2], ok |-> TRUE]

Grid_findEmpty(gr, w) == Grid_findEmpty_from(gr, w, 0)

\* a faulty variant: the box taken as BoxCols x BoxRows
Grid_isSafe_boxSwapped(gr, w, r, c, v) ==
    /\ ~\E i \in 0..(gr.Size - 1) : w.Cells[r][i] = v \/ w.Cells[i][c] = v
    /\ LET br == (r \div gr.BoxCols) * gr.BoxCols
           bc == (c \div gr.BoxRows) * gr.BoxRows
       IN  ~\E i \in 0..(gr.BoxCols - 1), j \in 0..(gr.BoxRows - 1) :
                w.Cells[br + i][bc + j] = v

\* a faulty variant: the box not looked at
Grid_isSafe_noBox(gr, w, r, c, v) ==
    ~\E i \in 0..(gr.Size - 1) : w.Cells[r][i] = v \/ w.Cells[i][c] = v

Grid_isSafe(gr, w, r, c, v) ==
    /\ ~\E i \in 0..(gr.Size - 1) : w.Cells[r][i] = v \/ w.Cells[i][c] = v
    /\ LET br == (r \div gr.BoxRows) * gr.BoxRows
           bc == (c \div gr.BoxCols) * gr.BoxCols
       IN  ~\E i \in 0..(gr.BoxRows - 1), j \in 0..(gr.BoxCols - 1) :
                w.Cells[br + i][bc + j] = v

\* Grid.Clone: a new grid of the same dimensions with the cells copied
Grid_Clone(gr) ==
    LET out == NewGrid(gr.Size, gr.BoxRows, gr.BoxCols)[1]
    IN  [out EXCEPT !.Cells = [r \in DOMAIN out.Cells |->
                                 [c \in DOMAIN out.Cells[r] |-> gr.Cells[r][c]]]]

(***************************************************************************)
(* The uniqueness counter: hasUniqueSolution (sudoku.go) and               *)
(* Grid.hasUniqueSolution (grid.go). dfs returns the grid cur points to,   *)
(* the counter and the boolean the closure returns (stop).                 *)
(***************************************************************************)
RECURSIVE dfs(_, _, _), dfs_loop(_, _, _, _, _, _)
dfs(cur, count, limit) ==
    LET e == findEmpty(cur)
    IN  IF ~e.ok
        THEN [cur |-> cur, count |-> count + 1, stop |-> count + 1 >= limit]
        ELSE dfs_loop(cur, e.r, e.c, 1, count, limit)

\* the loop for v := 1; v <= 9; v++ from v on
dfs_loop(cur, r, c, v, count, limit) ==
    IF v > 9 THEN [cur |-> cur, count |-> count, stop |-> FALSE]
    ELSE IF isSafe(cur, r, c, v)
    THEN LET sub == dfs(SetCell(cur, r, c, v), count, limit)
         IN  IF sub.stop THEN sub
             ELSE dfs_loop(SetCell(sub.cur, r, c, 0), r, c, v + 1, sub.count, limit)
    ELSE dfs_loop(cur, r, c, v + 1, count, limit)

\* a faulty variant: true once a solution was found (count >= 1)
hasUniqueSolution_atLeastOne(brd, limit) == dfs(brd, 0, limit).count >= 1

hasUniqueSolution(brd, limit) == dfs(brd, 0, limit).count = 1

RECURSIVE Grid_dfs(_, _, _, _), Grid_dfs_loop(_, _, _, _, _, _, _)
Grid_dfs(gr, cur, count, limit) ==
    LET e == Grid_findEmpty(gr, cur)
    IN  IF ~e.ok
        THEN [cur |-> cur, count |-> count + 1, stop |-> count + 1 >= limit]
        ELSE Grid_dfs_loop(gr, cur, e.r, e.c, 1, count, limit)

\* the loop for v := 1; v <= g.Size; v++ from v on
Grid_dfs_loop(gr, cur, r, c, v, count, limit) ==
    IF v > gr.Size THEN [cur |-> cur, count |-> count, stop |-> FALSE]
    ELSE IF Grid_isSafe(gr, cur, r, c, v)
    THEN LET sub == Grid_dfs(gr, [cur EXCEPT !.Cells[r][c] = v], count, limit)
         IN  IF sub.stop THEN sub
             ELSE Grid_dfs_loop(gr, [sub.cur EXCEPT !.Cells[r][c] = 0],
                                r, c, v + 1, sub.count, limit)
    ELSE Grid_dfs_loop(gr, cur, r, c, v + 1, count, limit)

\* a faulty variant: the early exit taken for a success (count >= 1 after the search)
Grid_hasUniqueSolution_atLeastOne(gr, w, limit) ==
    Grid_dfs(gr, Grid_Clone(w), 0, limit).count >= 1

Grid_hasUniqueSolution(gr, w, limit) == Grid_dfs(gr, Grid_Clone(w), 0, limit).count = 1

(***************************************************************************)
(* Difficulty and the target clue count: cluesFor (sudoku.go) and          *)
(* Grid.cluesFor (grid.go).                                                *)
(***************************************************************************)
Easy == "easy"
Medium == "medium"
Hard == "hard"

cluesFor(dif) ==
    CASE dif = Easy -> 40
      [] dif = Medium -> 32
      [] dif = Hard -> 26
      [] OTHER -> 32

max(x, y) == IF x > y THEN x ELSE y

\* base of Grid.cluesFor: 32 unless the switch overrides it
Grid_cluesFor_base(dif) ==
    CASE dif = Easy -> 40
      [] dif = Hard -> 26
      [] OTHER -> 32

\* a faulty variant: the floor of 8 clues left out
Grid_cluesFor_noFloor(gr, dif) ==
    IF gr.Size = 9 THEN Grid_cluesFor_base(dif)
    ELSE (gr.Size * gr.Size * Grid_cluesFor_base(dif)) \div 81

Grid_cluesFor(gr, dif) ==
    IF gr.Size = 9 THEN Grid_cluesFor_base(dif)
    ELSE max(8, (gr.Size * gr.Size * Grid_cluesFor_base(dif)) \div 81)

(***************************************************************************)
(* The string codec: Board.String, FromString (parse.go), Grid.String,     *)
(* FromStringN (grid.go). A string is the sequence of its bytes.           *)
(***************************************************************************)
\* the bytes '0' and '.'
Byte0 == 48
ByteDot == 46
\* the conversion byte(x) of an int
byte(x) == x % 256

Board_String(brd) ==
    [i \in 1..81 |->
        LET v == brd[(i - 1) \div 9][(i - 1) % 9]
        IN  IF v = 0 THEN Byte0 ELSE byte(Byte0 + v)]

\* the loop of FromString returns its error: a byte is none of '0'..'9', '.'
FromString_badByte(str) ==
    \E i \in 1..81 : str[i] \notin (Byte0..(Byte0 + 9)) \cup {ByteDot}

\* the cells the loop of FromString writes: byte i goes to r = i / 9, c = i % 9
FromString_cells(str) ==
    [r \in 0..8 |-> [c \in 0..8 |->
        LET ch == str[r * 9 + c + 1]
        IN  IF ch \in (Byte0 + 1)..(Byte0 + 9) THEN ch - Byte0 ELSE 0]]

\* a faulty variant's cells: r and c exchanged (r := i % 9, c := i / 9)
FromString_cellsTransposed(str) ==
    [r \in 0..8 |-> [c \in 0..8 |->
        LET ch == str[c * 9 + r + 1]
        IN  IF ch \in (Byte0 + 1)..(Byte0 + 9) THEN ch - Byte0 ELSE 0]]

\* a faulty variant: the board filled column by column
FromString_transposed(str) ==
    IF Len(str) # 81 THEN <<ZeroBoard, "input must be 81 characters">>
    ELSE IF FromString_badByte(str) THEN <<ZeroBoard, "invalid character in board">>
    ELSE IF Validate(FromString_cellsTransposed(str)) # Nil
         THEN <<ZeroBoard, Validate(FromString_cellsTransposed(str))>>
    ELSE <<FromString_cellsTransposed(str), Nil>>

\* the pair (Board, error) FromString returns
FromString(str) ==
    IF Len(str) # 81 THEN <<ZeroBoard, "input must be 81 characters">>
    ELSE IF FromString_badByte(str) THEN <<ZeroBoard, "invalid character in board">>
    ELSE IF Validate(FromString_cells(str)) # Nil
         THEN <<ZeroBoard, Validate(FromString_cells(str))>>
    ELSE <<FromString_cells(str), Nil>>

\* a run-time panic (an index out of range) in place of an error
Panic == "panic"

\* the loop of FromStringN from byte i on, gr the grid written so far: the
\* pair it leaves, with Panic when it writes a cell that gr does not have.
\* The loop stops at the first byte that returns an error or panics; if there
\* is none, every byte from i on was written to its cell i / size, i % size.
FromStringN_loop(str, size, gr, i) ==
    LET isDigit(k) == str[k + 1] \in (Byte0 + 1)..(Byte0 + 9)
        isEmpty(k) == str[k + 1] \in {Byte0, ByteDot}
        stops == {k \in i..(size * size - 1) :
                     \/ ~isDigit(k) /\ ~isEmpty(k)
                     \/ isDigit(k) /\ str[k + 1] - Byte0 > size
                     \/ gr.Size = 0}
    IN  IF stops # {}
        THEN LET k == CHOOSE x \in stops : \A y \in stops : x <= y
             IN  IF isDigit(k)
                 THEN IF str[k + 1] - Byte0 > size THEN <<ZeroGrid, "digit exceeds grid size">>
                      ELSE <<ZeroGrid, Panic>>
                 ELSE IF isEmpty(k) THEN <<ZeroGrid, Panic>>
                 ELSE <<ZeroGrid, "invalid character in grid">>
        ELSE IF i >= size * size THEN <<gr, Nil>>
        ELSE <<[gr EXCEPT !.Cells = [r \in 0..(size - 1) |-> [c \in 0..(size - 1) |->
                    IF r * size + c < i THEN gr.Cells[r][c]
                    ELSE IF isDigit(r * size + c) THEN str[r * size + c + 1] - Byte0
                    ELSE 0]]], Nil>>

\* the pair (Grid, error) FromStringN returns
FromStringN(str, size, boxRows, boxCols) ==
    IF size # boxRows * boxCols THEN <<ZeroGrid, "invalid dims">>
    ELSE IF Len(str) # size * size THEN <<ZeroGrid, "input must be size*size characters">>
    ELSE LET parsed == FromStringN_loop(str, size, NewGrid(size, boxRows, boxCols)[1], 0)
         IN  IF parsed[2] # Nil THEN parsed
             ELSE IF Grid_Validate(parsed[1]) # Nil
                  THEN <<ZeroGrid, Grid_Validate(parsed[1])>>
             ELSE parsed

\* a faulty variant: an empty cell written as '.'
Grid_String_dots(gr) ==
    [i \in 1..(gr.Size * gr.Size) |->
        LET v == gr.Cells[(i - 1) \div gr.Size][(i - 1) % gr.Size]
        IN  IF v = 0 THEN ByteDot ELSE byte(Byte0 + v)]

Grid_String(gr) ==
    [i \in 1..(gr.Size * gr.Size) |->
        LET v == gr.Cells[(i - 1) \div gr.Size][(i - 1) % gr.Size]
        IN  IF v = 0 THEN Byte0 ELSE byte(Byte0 + v)]

(***************************************************************************)
(* The rule of the game, stated on the cells: what the claims compare the  *)
(* code with.                                                              *)
(***************************************************************************)
SameBox(boxRows, boxCols, r1, c1, r2, c2) ==
    /\ r1 \div boxRows = r2 \div boxRows
    /\ c1 \div boxCols = c2 \div boxCols

\* two different cells of one row, column or box hold the same non-zero value
HasDuplicate(cells, size, boxRows, boxCols) ==
    \E r1, c1, r2, c2 \in 0..(size - 1) :
        /\ <<r1, c1>> # <<r2, c2>>
        /\ cells[r1][c1] # 0
        /\ cells[r1][c1] = cells[r2][c2]
        /\ \/ r1 = r2
           \/ c1 = c2
           \/ SameBox(boxRows, boxCols, r1, c1, r2, c2)

OutOfRange(cells, size) ==
    \E r, c \in 0..(size - 1) : cells[r][c] \notin 0..size

\* the same value twice in a box, and in no row and no column
BoxOnlyDuplicate(cells, size, boxRows, boxCols) ==
    /\ HasDuplicate(cells, size, boxRows, boxCols)
    /\ ~HasDuplicate(cells, size, 1, 1)

(***************************************************************************)
(* Input grids.                                                            *)
(***************************************************************************)
\* the grids with at most k cells of positions P set to a value of V
RECURSIVE SparseCells(_, _, _, _)
SparseCells(n, P, V, k) ==
    IF k = 0 THEN {ZeroCells(n)}
    ELSE LET prev == SparseCells(n, P, V, k - 1)
         IN  prev \cup {SetCell(m, p[1], p[2], v) : m \in prev, p \in P, v \in V}

\* the cells of the first box and of the row and the column next to it
Corner(size, boxRows, boxCols) ==
    {p \in (0..boxRows) \X (0..boxCols) : p[1] < size /\ p[2] < size}
\* the values around the ends of the range [0, size]
EdgeValues(size) == {-1, 1, size, size + 1}

\* a solved 9x9 board: the solution of the puzzle of TestSolveSimple
SolvedBoard ==
    LET rows == << <<5, 3, 4, 6, 7, 8, 9, 1, 2>>,
                   <<6, 7, 2, 1, 9, 5, 3, 4, 8>>,
                   <<1, 9, 8, 3, 4, 2, 5, 6, 7>>,
                   <<8, 5, 9, 7, 6, 1, 4, 2, 3>>,
                   <<4, 2, 6, 8, 5, 3, 7, 9, 1>>,
                   <<7, 1, 3, 9, 2, 4, 8, 5, 6>>,
                   <<9, 6, 1, 5, 3, 7, 2, 8, 4>>,
                   <<2, 8, 7, 4, 1, 9, 6, 3, 5>>,
                   <<3, 4, 5, 2, 8, 6, 1, 7, 9>> >>
    IN  [r \in 0..8 |-> [c \in 0..8 |-> rows[r + 1][c + 1]]]

\* boards with one cell of the corner overwritten
PokedBoards ==
    {SetCell(SolvedBoard, p[1], p[2], v) : p \in Corner(9, 3, 3), v \in -1..10}

ValidateBoards(k) == SparseCells(9, Corner(9, 3, 3), EdgeValues(9), k) \cup PokedBoards

\* the sparse grids of size*size cells with boxRows x boxCols boxes
SparseGrids(size, boxRows, boxCols, k) ==
    {MkGrid(size, boxRows, boxCols, m) :
        m \in SparseCells(size, Corner(size, boxRows, boxCols), EdgeValues(size), k)}

ValidateGrids(k) ==
    SparseGrids(4, 2, 2, k) \cup SparseGrids(6, 2, 3, k) \cup SparseGrids(6, 3, 2, k)
        \cup SparseGrids(2, 1, 2, k) \cup SparseGrids(3, 3, 1, k)

(***************************************************************************)
(* The legal completions of a grid, from the rule alone.                   *)
(***************************************************************************)
\* the grid obeys the rule: what Validate is to accept
Legal(cells, size, boxRows, boxCols) ==
    /\ ~OutOfRange(cells, size)
    /\ ~HasDuplicate(cells, size, boxRows, boxCols)

AllCells(size) == (0..(size - 1)) \X (0..(size - 1))
Empties(cells, size) == {p \in AllCells(size) : cells[p[1]][p[2]] = 0}
CountClues(cells, size) == Cardinality(AllCells(size) \ Empties(cells, size))

\* the rows of a solved grid: the orders of 1..size
Perms(size) ==
    {f \in [0..(size - 1) -> 1..size] :
        \A i, j \in 0..(size - 1) : i # j => f[i] # f[j]}

\* row can follow the rows above it
RowFits(size, boxRows, boxCols, above, row) ==
    \A j \in 1..Len(above), c \in 0..(size - 1) :
        /\ above[j][c] # row[c]
        /\ (j - 1) \div boxRows = Len(above) \div boxRows =>
              \A c2 \in 0..(size - 1) :
                  c \div boxCols = c2 \div boxCols => above[j][c] # row[c2]

RECURSIVE SolvedRows(_, _, _, _)
SolvedRows(size, boxRows, boxCols, k) ==
    IF k = 0 THEN {<<>>}
    ELSE UNION {{Append(above, row) :
                    row \in {x \in Perms(size) : RowFits(size, boxRows, boxCols, above, x)}} :
                        above \in SolvedRows(size, boxRows, boxCols, k - 1)}

\* every solved grid of the given dimensions
Solved(size, boxRows, boxCols) ==
    {[r \in 0..(size - 1) |-> rows[r + 1]] : rows \in SolvedRows(size, boxRows, boxCols, size)}

Solved2 == Solved(2, 1, 2)
Solved3 == Solved(3, 1, 3)
Solved4 == Solved(4, 2, 2)

\* the values row r of cells lacks
RowMissing(cells, size, r) == (1..size) \ {cells[r][c] : c \in 0..(size - 1)}

\* an empty cell whose row, column and box hold every value: no completion
HasDeadCell(cells, size, boxRows, boxCols) ==
    \E p \in Empties(cells, size) : \A v \in 1..size :
        \E q \in AllCells(size) :
            /\ cells[q[1]][q[2]] = v
            /\ \/ q[1] = p[1]
               \/ q[2] = p[2]
               \/ SameBox(boxRows, boxCols, p[1], p[2], q[1], q[2])

\* cells with every empty cell p set to f[p]
Filled(cells, size, f) ==
    [r \in 0..(size - 1) |-> [c \in 0..(size - 1) |->
        IF cells[r][c] = 0 THEN f[<<r, c>>] ELSE cells[r][c]]]

\* the legal grids without a 0 that agree with cells on its non-zero cells
Completions(cells, size, boxRows, boxCols) ==
    IF size = 4 /\ boxRows = 2
    THEN {m \in Solved4 : \A p \in AllCells(4) \ Empties(cells, 4) : m[p[1]][p[2]] = cells[p[1]][p[2]]}
    ELSE IF size = 3 /\ boxRows = 1
    THEN {m \in Solved3 : \A p \in AllCells(3) \ Empties(cells, 3) : m[p[1]][p[2]] = cells[p[1]][p[2]]}
    ELSE IF size = 2 /\ boxRows = 1
    THEN {m \in Solved2 : \A p \in AllCells(2) \ Empties(cells, 2) : m[p[1]][p[2]] = cells[p[1]][p[2]]}
    ELSE IF HasDeadCell(cells, size, boxRows, boxCols) THEN {}
    ELSE {m \in {Filled(cells, size, f) :
                    f \in {h \in [Empties(cells, size) -> 1..size] :
                             \A p \in Empties(cells, size) :
                                 h[p] \in RowMissing(cells, size, p[1])}} :
             Legal(m, size, boxRows, boxCols)}

\* the values the rule leaves for the empty cell p: those not in its row,
\* its column or its box
Candidates(cells, size, boxRows, boxCols, p) ==
    LET br == (p[1] \div boxRows) * boxRows
        bc == (p[2] \div boxCols) * boxCols
    IN  (1..size) \ ({cells[p[1]][c] : c \in 0..(size - 1)}
                        \cup {cells[r][p[2]] : r \in 0..(size - 1)}
                        \cup {cells[br + i][bc + j] :
                                 i \in 0..(boxRows - 1), j \in 0..(boxCols - 1)})

\* the number of legal completions of a legal grid, counted up to cap, by
\* branching on an empty cell with the fewest candidates
RECURSIVE NumCompletions(_, _, _, _, _), NumCompletionsOver(_, _, _, _, _, _, _)
NumCompletions(cells, size, boxRows, boxCols, cap) ==
    IF Empties(cells, size) = {} THEN 1
    ELSE LET E == Empties(cells, size)
             n == [q \in E |-> Cardinality(Candidates(cells, size, boxRows, boxCols, q))]
             p == CHOOSE q \in E : \A q2 \in E : n[q] <= n[q2]
         IN  NumCompletionsOver(cells, size, boxRows, boxCols, cap, p,
                                Candidates(cells, size, boxRows, boxCols, p))

NumCompletionsOver(cells, size, boxRows, boxCols, cap, p, vs) ==
    IF vs = {} \/ cap <= 0 THEN 0
    ELSE LET v == CHOOSE x \in vs : TRUE
             k == NumCompletions(SetCell(cells, p[1], p[2], v), size, boxRows, boxCols, cap)
         IN  IF k >= cap THEN cap
             ELSE k + NumCompletionsOver(cells, size, boxRows, boxCols, cap - k, p, vs \ {v})

\* the grid is legal and exactly one legal grid without empty cell extends it
OneCompletion(cells, size, boxRows, boxCols) ==
    /\ Legal(cells, size, boxRows, boxCols)
    /\ NumCompletions(cells, size, boxRows, boxCols, 2) = 1

(***************************************************************************)
(* Input grids of the searches.                                            *)
(***************************************************************************)
\* cells with the cells of E emptied
Blanked(cells, size, E) ==
    [r \in 0..(size - 1) |-> [c \in 0..(size - 1) |->
        IF <<r, c>> \in E THEN 0 ELSE cells[r][c]]]

SubsetsUpTo(P, k) == {E \in SUBSET P : Cardinality(E) <= k}

\* cells of the solved board to empty: a rectangle 6 7 / 7 6 and two more
ProbeCells == {<<0, 3>>, <<0, 4>>, <<3, 3>>, <<3, 4>>, <<0, 0>>, <<8, 8>>}

BlankedBoards(k) == {Blanked(SolvedBoard, 9, E) : E \in SubsetsUpTo(ProbeCells, k)}

\* the board of TestSolveUnsolvable: row 0 holds 1..8, column 0 holds 9
UnsolvableBoard ==
    [r \in 0..8 |-> [c \in 0..8 |->
        IF r = 0 /\ c >= 1 THEN c ELSE IF r = 1 /\ c = 0 THEN 9 ELSE 0]]

\* a rectangle 5 2 / 2 5 whose corners lie in four boxes, and the 2 of the
\* first corner's box: swapping the corners keeps rows and columns legal
CrossCells == {<<0, 0>>, <<0, 8>>, <<7, 0>>, <<7, 8>>, <<1, 2>>}

\* the solved board with cells of CrossCells emptied, also with the first
\* corner holding the 2 of the opposite corners
CrossBoards(k) ==
    {Blanked(SolvedBoard, 9, E) : E \in SubsetsUpTo(CrossCells, k)}
        \cup {Blanked(SetCell(SolvedBoard, 0, 0, 2), 9, E) :
                 E \in SubsetsUpTo(CrossCells \ {<<0, 0>>}, k)}

SearchBoards(k) == BlankedBoards(k) \cup CrossBoards(k) \cup {UnsolvableBoard}

\* the solved 4x4 grids with row 0 = 1 2 3 4
Base4 == {m \in Solved4 : \A c \in 0..3 : m[0][c] = c + 1}

DenseGrids4(k) ==
    {MkGrid(4, 2, 2, Blanked(m, 4, E)) :
        m \in Base4, E \in SubsetsUpTo(Corner(4, 2, 2), k)}

\* a solved 6x6 grid with 2x3 boxes
Solved6 == [r \in 0..5 |-> [c \in 0..5 |-> ((3 * (r % 2) + (r \div 2) + c) % 6) + 1]]

DenseGrids6(k) ==
    {MkGrid(6, 2, 3, Blanked(Solved6, 6, E)) : E \in SubsetsUpTo(Corner(6, 2, 3), k)}

\* the 3x3 grids (boxes are rows) with at most n cells given
SmallGrids3(n) == {MkGrid(3, 1, 3, m) : m \in SparseCells(3, AllCells(3), 1..3, n)}

\* every 2x2 grid (boxes are rows) with values in [0, 2]
AllGrids2 == {MkGrid(2, 1, 2, m) : m \in [0..1 -> [0..1 -> 0..2]]}

\* k cells emptied at most, n cells given at most
SearchGrids(k, n) == DenseGrids4(k) \cup DenseGrids6(k) \cup SmallGrids3(n) \cup AllGrids2

(***************************************************************************)
(* The generator's helpers.                                                *)
(***************************************************************************)
countClues(brd) ==
    Cardinality({p \in (0..8) \X (0..8) : brd[p[1]][p[2]] # 0})

\* a faulty variant: one clue too many counted
Grid_countClues_plusOne(gr, w) ==
    Cardinality({p \in (0..(gr.Size - 1)) \X (0..(gr.Size - 1)) : w.Cells[p[1]][p[2]] # 0}) + 1

Grid_countClues(gr, w) ==
    Cardinality({p \in (0..(gr.Size - 1)) \X (0..(gr.Size - 1)) : w.Cells[p[1]][p[2]] # 0})

\* vals is the outcome of globalRand.Perm(9)
fillBox(brd, br, bc, vals) ==
    [r \in 0..8 |-> [c \in 0..8 |->
        IF r \in br..(br + 2) /\ c \in bc..(bc + 2)
        THEN vals[(r - br) * 3 + (c - bc)] + 1
        ELSE brd[r][c]]]

\* perms[1], perms[2], perms[3] are the outcomes of the three calls of Perm
fillDiagonalBoxes(brd, perms) ==
    fillBox(fillBox(fillBox(brd, 0, 0, perms[1]), 3, 3, perms[2]), 6, 6, perms[3])

Grid_fillBox(gr, br, bc, vals) ==
    [gr EXCEPT !.Cells =
        [r \in 0..(gr.Size - 1) |-> [c \in 0..(gr.Size - 1) |->
            IF r \in br..(br + gr.BoxRows - 1) /\ c \in bc..(bc + gr.BoxCols - 1)
            THEN vals[(r - br) * gr.BoxCols + (c - bc)] + 1
            ELSE gr.Cells[r][c]]]]

Grid_steps(gr) ==
    IF gr.Size \div gr.BoxCols < gr.Size \div gr.BoxRows
    THEN gr.Size \div gr.BoxCols
    ELSE gr.Size \div gr.BoxRows

RECURSIVE Grid_fillDiagonalBoxes_from(_, _, _)
Grid_fillDiagonalBoxes_from(gr, perms, i) ==
    IF i >= Grid_steps(gr) THEN gr
    ELSE Grid_fillDiagonalBoxes_from(
             Grid_fillBox(gr, i * gr.BoxRows, i * gr.BoxCols, perms[i + 1]), perms, i + 1)

\* a faulty variant: box i placed at column i * BoxRows
RECURSIVE Grid_fillDiagonalBoxes_square_from(_, _, _)
Grid_fillDiagonalBoxes_square_from(gr, perms, i) ==
    IF i >= Grid_steps(gr) THEN gr
    ELSE Grid_fillDiagonalBoxes_square_from(
             Grid_fillBox(gr, i * gr.BoxRows, i * gr.BoxRows, perms[i + 1]), perms, i + 1)

Grid_fillDiagonalBoxes_square(gr, perms) == Grid_fillDiagonalBoxes_square_from(gr, perms, 0)

Grid_fillDiagonalBoxes(gr, perms) == Grid_fillDiagonalBoxes_from(gr, perms, 0)

\* the rotations of 0..n-1 by 0..MaxRot
Rotations(n) == {[i \in 0..(n - 1) |-> (i + k) % n] : k \in 0..MaxRot}

\* the outcomes of globalRand.Perm(n) explored
Perm(n) ==
    IF n <= FullPermN
    THEN {f \in [0..(n - 1) -> 0..(n - 1)] : \A i, j \in 0..(n - 1) : i # j => f[i] # f[j]}
    ELSE Rotations(n)

\* the outcomes of the calls of Perm(n) in fillDiagonalBoxes explored: the
\* first box holds a rotation of 1..n (the other seeds are these renamed)
SeedPerms(n, steps) == {perms \in [1..steps -> Perm(n)] : perms[1] \in Rotations(n)}

\* the outcomes of globalRand.Perm(n) explored for rmOrder: a permutation
\* from its last index down, so that the carve empties the grid from its end
PermDown(n) ==
    {[i \in 0..(n - 1) |-> f[n - 1 - i]] :
        f \in IF n <= FullPermN
               THEN Perm(n)
               ELSE {[i \in 0..(n - 1) |-> (i + k) % n] : k \in 0..MaxOrderRot}}

\* a faulty variant: attempts taken as given
Generate_attempts_asGiven(n) == n

\* attempts after "if attempts < 1 { attempts = 1 }"
Generate_attempts(n) == IF n < 1 THEN 1 ELSE n

(***************************************************************************)
(* State.                                                                  *)
(***************************************************************************)
VARIABLES
    fn,     \* the function called
    pc,     \* where the call is: "start", ..., "done"
    b,      \* the Board argument
    g,      \* the Grid argument or receiver
    s,      \* the string argument
    d,      \* the Difficulty argument
    limit,  \* the limit argument of hasUniqueSolution
    ret,    \* what the call returned
    work,   \* the copy backtrack fills: solved / work / b of the callers
    stack,  \* the calls of backtrack in progress: cell and values tried
    found,  \* what the outermost backtrack returned
    count,  \* hasUniqueSolution: the solutions counted
    attempts, \* Generate: the attempts budget after normalisation
    try,    \* Generate: the attempt counter
    lastErr, \* Generate: the last failure
    target, \* Generate: the clue target
    puzzle, \* Generate: the grid being carved
    rmOrder, \* Generate: the removal order
    ri,     \* Generate: the position in rmOrder
    old,    \* Generate: the value of the cell being cleared
    dims,   \* the arguments size, boxRows, boxCols
    globalRand, \* the state of the shared random source
    seed,   \* the argument of SetRandSeed
    heap,   \* the rows of the grids' Cells, by address
    seen,   \* what was observed earlier: the caller's grid before the call,
            \* or what the earlier of two runs returned
    reqs    \* the HTTP requests being served, one goroutine each

args == <<fn, b, g, d, limit>>
search == <<work, stack, found, count>>
gen == <<attempts, try, lastErr, target, puzzle, rmOrder, ri, old>>
\* what the calls of the library's first part do not use
env == <<dims, globalRand, seed, heap, seen, reqs>>
vars == <<fn, pc, b, g, s, d, limit, ret, work, stack, found, count,
          attempts, try, lastErr, target, puzzle, rmOrder, ri, old,
          dims, globalRand, seed, heap, seen, reqs>>

\* no search and no generation in progress
Idle ==
    /\ work = None
    /\ stack = <<>>
    /\ found = FALSE
    /\ count = 0
    /\ attempts = 0
    /\ try = 0
    /\ lastErr = Nil
    /\ target = 0
    /\ puzzle = None
    /\ rmOrder = <<>>
    /\ ri = 0
    /\ old = 0

\* no random source, no heap and no earlier observation in the model of a call
Unshared ==
    /\ globalRand = None
    /\ seed = None
    /\ heap = None
    /\ seen = None
    /\ reqs = None

(***************************************************************************)
(* Validate(b) and g.Validate().                                           *)
(***************************************************************************)
InitValidate ==
    /\ pc = "start"
    /\ ret = None
    /\ s = None
    /\ d = None
    /\ limit = None
    /\ Idle
    /\ dims = None
    /\ Unshared
    /\ \/ fn = "Validate" /\ b \in ValidateBoards(MaxClues) /\ g = None
       \/ fn = "Grid.Validate" /\ g \in ValidateGrids(MaxClues) /\ b = None

CallValidate ==
    /\ pc = "start"
    /\ fn = "Validate"
    /\ ret' = Validate(b)
    /\ pc' = "done"
    /\ UNCHANGED <<args, env, s, search, gen>>

CallGridValidate ==
    /\ pc = "start"
    /\ fn = "Grid.Validate"
    /\ ret' = Grid_Validate(g)
    /\ pc' = "done"
    /\ UNCHANGED <<args, env, s, search, gen>>

NextValidate == CallValidate \/ CallGridValidate

SpecValidate == InitValidate /\ [][NextValidate]_vars

(***************************************************************************)
(* C1: Validate and Grid.Validate return ErrInvalidBoard for every grid    *)
(* with two equal non-zero values in one row, column or box, or a value    *)
(* outside [0, size], and return nil for every other grid.                 *)
(***************************************************************************)
C1_ValidateIffRule ==
    /\ (pc = "done" /\ fn = "Validate") =>
          IF HasDuplicate(b, 9, 3, 3) \/ OutOfRange(b, 9)
          THEN ret = ErrInvalidBoard ELSE ret = Nil
    /\ (pc = "done" /\ fn = "Grid.Validate") =>
          IF \/ HasDuplicate(g.Cells, g.Size, g.BoxRows, g.BoxCols)
             \/ OutOfRange(g.Cells, g.Size)
          THEN ret = ErrInvalidBoard ELSE ret = Nil

\* a board rejected for a duplicate that only the box scan sees
C1_Witness ==
    /\ pc = "done"
    /\ fn = "Validate"
    /\ ~OutOfRange(b, 9)
    /\ BoxOnlyDuplicate(b, 9, 3, 3)
    /\ ret = ErrInvalidBoard

(***************************************************************************)
(* cluesFor(d) and g.cluesFor(d).                                          *)
(***************************************************************************)
\* the three difficulties and two values that are none of them
Difficulties == {Easy, Medium, Hard}
AnyDifficulty == Difficulties \cup {"", "expert"}

\* one grid of every size NewGrid accepts
SizedGrids == {MkGrid(n, 1, n, ZeroCells(n)) : n \in 1..MaxGridSize}

InitClues ==
    /\ pc = "start"
    /\ ret = None
    /\ s = None
    /\ b = None
    /\ limit = None
    /\ Idle
    /\ dims = None
    /\ Unshared
    /\ d \in AnyDifficulty
    /\ \/ fn = "cluesFor" /\ g = None
       \/ fn = "Grid.cluesFor" /\ g \in SizedGrids

CallCluesFor ==
    /\ pc = "start"
    /\ fn = "cluesFor"
    /\ ret' = cluesFor(d)
    /\ pc' = "done"
    /\ UNCHANGED <<args, env, s, search, gen>>

CallGridCluesFor ==
    /\ pc = "start"
    /\ fn = "Grid.cluesFor"
    /\ ret' = Grid_cluesFor(g, d)
    /\ pc' = "done"
    /\ UNCHANGED <<args, env, s, search, gen>>

NextClues == CallCluesFor \/ CallGridCluesFor

SpecClues == InitClues /\ [][NextClues]_vars

\* the base count the claim gives each difficulty
ClaimedBase(dif) == IF dif = Easy THEN 40 ELSE IF dif = Hard THEN 26 ELSE 32

(***************************************************************************)
(* C8: the target is 40/32/26 for Easy/Medium/Hard at size 9; at any other *)
(* size it is max(8, size*size*base/81) with integer division; it is never *)
(* below 8 and never grows from Easy to Medium to Hard; a difficulty that  *)
(* is none of the three counts as Medium (32).                             *)
(***************************************************************************)
C8_ClueTarget ==
    /\ (pc = "done" /\ fn = "cluesFor") => ret = ClaimedBase(d)
    /\ (pc = "done" /\ fn = "Grid.cluesFor") =>
          /\ g.Size = 9 => ret = ClaimedBase(d)
          /\ g.Size # 9 =>
                \E q \in 0..(g.Size * g.Size * ClaimedBase(d)) :
                    /\ 81 * q <= g.Size * g.Size * ClaimedBase(d)
                    /\ g.Size * g.Size * ClaimedBase(d) < 81 * (q + 1)
                    /\ ret = IF q < 8 THEN 8 ELSE q
          /\ ret >= 8
          /\ Grid_cluesFor(g, Easy) >= Grid_cluesFor(g, Medium)
          /\ Grid_cluesFor(g, Medium) >= Grid_cluesFor(g, Hard)
          /\ d \notin Difficulties => ret = Grid_cluesFor(g, Medium)

\* a grid small enough for the floor of 8 to decide the target
C8_Witness ==
    /\ pc = "done"
    /\ fn = "Grid.cluesFor"
    /\ d = Hard
    /\ g.Size = 4
    /\ ret = 8

(***************************************************************************)
(* b.String() then FromString, g.String() then FromStringN.                *)
(***************************************************************************)
\* cells of a 9x9 grid set for the codec: the first rows and columns, the
\* centre and the end, none the transpose of another but (0, 1) and (1, 0)
CodecCells == {<<0, 0>>, <<0, 1>>, <<1, 0>>, <<0, 3>>, <<4, 4>>, <<7, 8>>, <<8, 8>>}

CodecBoards(k) == SparseCells(9, CodecCells, EdgeValues(9), k) \cup PokedBoards
CodecGrids(k) ==
    ValidateGrids(k)
        \cup {MkGrid(9, 3, 3, m) : m \in SparseCells(9, CodecCells, EdgeValues(9), k)}

InitCodec ==
    /\ pc = "start"
    /\ ret = None
    /\ s = None
    /\ d = None
    /\ limit = None
    /\ Idle
    /\ dims = None
    /\ Unshared
    /\ \/ fn = "Board.String" /\ b \in CodecBoards(MaxClues) /\ g = None
       \/ fn = "Grid.String" /\ g \in CodecGrids(MaxClues) /\ b = None

CallBoardString ==
    /\ pc = "start"
    /\ fn = "Board.String"
    /\ s' = Board_String(b)
    /\ pc' = "parse"
    /\ UNCHANGED <<args, env, ret, search, gen>>

CallGridString ==
    /\ pc = "start"
    /\ fn = "Grid.String"
    /\ s' = Grid_String(g)
    /\ pc' = "parse"
    /\ UNCHANGED <<args, env, ret, search, gen>>

CallFromString ==
    /\ pc = "parse"
    /\ fn = "Board.String"
    /\ ret' = FromString(s)
    /\ pc' = "done"
    /\ UNCHANGED <<args, env, s, search, gen>>

CallFromStringN ==
    /\ pc = "parse"
    /\ fn = "Grid.String"
    /\ ret' = FromStringN(s, g.Size, g.BoxRows, g.BoxCols)
    /\ pc' = "done"
    /\ UNCHANGED <<args, env, s, search, gen>>

NextCodec == CallBoardString \/ CallGridString \/ CallFromString \/ CallFromStringN

SpecCodec == InitCodec /\ [][NextCodec]_vars

(***************************************************************************)
(* C10: for every valid grid of size <= 9, parsing the string String()     *)
(* produced succeeds and gives a grid with the same cells.                 *)
(***************************************************************************)
C10_RoundTrip ==
    /\ (pc = "done" /\ fn = "Board.String" /\ Legal(b, 9, 3, 3)) =>
          /\ ret[2] = Nil
          /\ ret[1] = b
    /\ (pc = "done" /\ fn = "Grid.String" /\ g.Size <= 9
            /\ Legal(g.Cells, g.Size, g.BoxRows, g.BoxCols)) =>
          /\ ret[2] = Nil
          /\ ret[1] = g

\* a solved board, every digit 1..9 in it, came back from its string
C10_Witness ==
    /\ pc = "done"
    /\ fn = "Board.String"
    /\ CountClues(b, 9) = 81
    /\ Legal(b, 9, 3, 3)
    /\ ret = <<b, Nil>>

(***************************************************************************)
(* FromString(s) and FromStringN(s, size, boxRows, boxCols) on strings of  *)
(* any content.                                                            *)
(***************************************************************************)
\* the byte 'x'
ByteX == 120
\* str with byte i (from 1) replaced by ch
Patched(str, i, ch) == [str EXCEPT ![i] = ch]
\* str and the strings made from it: a byte replaced by '.' or 'x' at the
\* start, in the second row or at the end, the last byte dropped, a byte added
Variants(str, size) ==
    {str}
        \cup (IF Len(str) = 0 THEN {}
              ELSE {Patched(str, i, ch) : i \in {1, Len(str) - size + 2, Len(str)},
                                        ch \in {ByteDot, ByteX}}
                      \cup {SubSeq(str, 1, Len(str) - 1)})
        \cup {Append(str, Byte0)}

ParseBoardStrings(k) ==
    UNION {Variants(Board_String(m), 9) : m \in CodecBoards(k)}

\* the dimensions tried with a string written from grid gr: its own, its box
\* turned, both box sides negative, the size and one box side negative, a box
\* that does not multiply to the size, and size 0
ParseDims(gr) ==
    {<<gr.Size, gr.BoxRows, gr.BoxCols>>, <<gr.Size, gr.BoxCols, gr.BoxRows>>,
     <<gr.Size, -gr.BoxRows, -gr.BoxCols>>, <<-gr.Size, -gr.BoxRows, gr.BoxCols>>,
     <<gr.Size, gr.Size, gr.Size>>, <<0, 0, gr.BoxCols>>}

\* every variant of a grid's string with the grid's dimensions, the string and
\* the string with a last byte 'x' with the other dimensions, and the empty
\* string with size 0
ParseGridInputs(k) ==
    UNION {(Variants(Grid_String(gr), gr.Size) \X {<<gr.Size, gr.BoxRows, gr.BoxCols>>})
              \cup ({Grid_String(gr), Patched(Grid_String(gr), gr.Size * gr.Size, ByteX)}
                        \X ParseDims(gr)) : gr \in ValidateGrids(k)}
        \cup {<<(<< >>), <<0, 0, 0>>>>, <<(<< >>), <<0, 0, 3>>>>}

InitParse ==
    /\ pc = "start"
    /\ ret = None
    /\ b = None
    /\ g = None
    /\ d = None
    /\ limit = None
    /\ Idle
    /\ Unshared
    /\ \/ fn = "FromString" /\ s \in ParseBoardStrings(MaxClues) /\ dims = <<9, 3, 3>>
       \/ /\ fn = "FromStringN"
          /\ \E in \in ParseGridInputs(MaxClues) : s = in[1] /\ dims = in[2]

ParseFromString ==
    /\ pc = "start"
    /\ fn = "FromString"
    /\ ret' = FromString(s)
    /\ pc' = "done"
    /\ UNCHANGED <<args, env, s, search, gen>>

ParseFromStringN ==
    /\ pc = "start"
    /\ fn = "FromStringN"
    /\ ret' = FromStringN(s, dims[1], dims[2], dims[3])
    /\ pc' = "done"
    /\ UNCHANGED <<args, env, s, search, gen>>

NextParse == ParseFromString \/ ParseFromStringN

SpecParse == InitParse /\ [][NextParse]_vars

\* the bytes a cell may be written with, and the value a byte stands for
AllowedBytes == (Byte0..(Byte0 + 9)) \cup {ByteDot}
ValueOf(ch) == IF ch = ByteDot THEN 0 ELSE ch - Byte0
\* the cells a string of size*size allowed bytes stands for, row by row
Decoded(str, size) ==
    [r \in 0..(size - 1) |-> [c \in 0..(size - 1) |-> ValueOf(str[r * size + c + 1])]]
\* the string has the wrong length or a byte that is not allowed
IllFormed(str, size) ==
    \/ Len(str) # size * size
    \/ \E i \in 1..Len(str) : str[i] \notin AllowedBytes
\* the string is ill-formed, has a digit above size, or its cells break the rule
Malformed(str, size, boxRows, boxCols) ==
    \/ IllFormed(str, size)
    \/ \E i \in 1..Len(str) : ValueOf(str[i]) > size
    \/ size > 0 /\ size = boxRows * boxCols
            /\ ~Legal(Decoded(str, size), size, boxRows, boxCols)
\* the call returned an error, not a panic
Failed == ret[2] \notin {Nil, Panic}

(***************************************************************************)
(* C11: FromString and FromStringN return an error and the zero value for  *)
(* every string of the wrong length, with a byte other than '0'..'9' and   *)
(* '.', with a digit above size, or with cells that break the rule; they   *)
(* succeed only for well-formed strings, with the cells the string stands  *)
(* for.                                                                    *)
(***************************************************************************)
C11_ParseRejectsMalformed ==
    /\ (pc = "done" /\ fn = "FromString") =>
          /\ Malformed(s, 9, 3, 3) => Failed /\ ret[1] = ZeroBoard
          /\ ret[2] = Nil => ~Malformed(s, 9, 3, 3) /\ ret[1] = Decoded(s, 9)
    /\ (pc = "done" /\ fn = "FromStringN") =>
          /\ Malformed(s, dims[1], dims[2], dims[3]) => Failed /\ ret[1] = ZeroGrid
          /\ ret[2] = Nil =>
                /\ ~Malformed(s, dims[1], dims[2], dims[3])
                /\ dims[1] > 0 => ret[1] = MkGrid(dims[1], dims[2], dims[3], Decoded(s, dims[1]))

\* C11 for the dimensions NewGrid accepts
C11_ParseRejectsMalformedSized ==
    (pc = "done" /\ fn = "FromStringN" /\ NewGrid(dims[1], dims[2], dims[3])[2] # Nil)
        \/ C11_ParseRejectsMalformed

(***************************************************************************)
(* hasUniqueSolution(b, limit) and g.hasUniqueSolution(w, limit).          *)
(***************************************************************************)
\* Generate passes 2; 0, 1 and 3 are the values around it
Limits == 0..3

InitUnique ==
    /\ pc = "start"
    /\ ret = None
    /\ s = None
    /\ d = None
    /\ limit \in Limits
    /\ Idle
    /\ dims = None
    /\ Unshared
    /\ \/ fn = "hasUniqueSolution" /\ b \in SearchBoards(MaxEmpty) /\ g = None
       \/ fn = "Grid.hasUniqueSolution" /\ g \in SearchGrids(MaxEmpty, MaxGivens) /\ b = None

CallHasUniqueSolution ==
    /\ pc = "start"
    /\ fn = "hasUniqueSolution"
    /\ ret' = hasUniqueSolution(b, limit)
    /\ pc' = "done"
    /\ UNCHANGED <<args, env, s, search, gen>>

CallGridHasUniqueSolution ==
    /\ pc = "start"
    /\ fn = "Grid.hasUniqueSolution"
    /\ ret' = Grid_hasUniqueSolution(g, g, limit)
    /\ pc' = "done"
    /\ UNCHANGED <<args, env, s, search, gen>>

NextUnique == CallHasUniqueSolution \/ CallGridHasUniqueSolution

SpecUnique == InitUnique /\ [][NextUnique]_vars

(***************************************************************************)
(* C5: with limit = 2, hasUniqueSolution returns true iff the valid grid   *)
(* has exactly one legal completion (false for none and for two or more).  *)
(***************************************************************************)
C5_UniqueIffOneCompletion ==
    /\ (pc = "done" /\ fn = "hasUniqueSolution" /\ limit = 2 /\ Legal(b, 9, 3, 3)) =>
          (ret <=> Cardinality(Completions(b, 9, 3, 3)) = 1)
    /\ (pc = "done" /\ fn = "Grid.hasUniqueSolution" /\ limit = 2
            /\ Legal(g.Cells, g.Size, g.BoxRows, g.BoxCols)) =>
          (ret <=> Cardinality(Completions(g.Cells, g.Size, g.BoxRows, g.BoxCols)) = 1)

\* a valid board with two completions, reported as not unique
C5_Witness ==
    /\ pc = "done"
    /\ fn = "hasUniqueSolution"
    /\ limit = 2
    /\ Legal(b, 9, 3, 3)
    /\ Cardinality(Completions(b, 9, 3, 3)) = 2
    /\ ret = FALSE

(***************************************************************************)
(* Solve(b) and g.Solve(), one step of backtrack at a time.                *)
(*                                                                         *)
(* A call of backtrack is a frame of stack: the cell findEmpty gave it and *)
(* the values it has placed there.  The shuffle is the order in which the  *)
(* frame takes its values; a value isSafe rejects is passed over without   *)
(* effect, so a frame's next step is any safe value it has not yet placed. *)
(***************************************************************************)
SolveBoards(k) == SearchBoards(k) \cup PokedBoards
SolveGrids(k, n) == SearchGrids(k, n)

InitSolve ==
    /\ pc = "start"
    /\ ret = None
    /\ s = None
    /\ d = None
    /\ limit = None
    /\ Idle
    /\ dims = None
    /\ Unshared
    /\ \/ fn = "Solve" /\ b \in SolveBoards(MaxEmpty) /\ g = None
       \/ fn = "Grid.Solve" /\ g \in SolveGrids(MaxEmpty, MaxGivens) /\ b = None

top == stack[Len(stack)]

\* the value placed next when the shuffle leaves vals in ascending order,
\* the one order explored for the 9x9 searches of Generate
Ascending(brd, r, c, tried) ==
    CHOOSE v \in (1..9) \ tried :
        /\ isSafe(brd, r, c, v)
        /\ \A u \in (1..9) \ tried : isSafe(brd, r, c, u) => v <= u

\* Solve: copyBoard, then backtrack(&solved)
Solve ==
    /\ pc = "start"
    /\ fn = "Solve"
    /\ work' = b
    /\ pc' = "backtrack"
    /\ UNCHANGED <<args, env, s, ret, stack, found, count, gen>>

\* backtrack: findEmpty; none left returns true through every caller
backtrack ==
    /\ pc = "backtrack"
    /\ fn \in {"Solve", "Generate", "Hint"}
    /\ LET e == findEmpty(work)
       IN  IF ~e.ok
           THEN /\ found' = TRUE
                /\ stack' = <<>>
                /\ pc' = "return"
           ELSE /\ stack' = Append(stack, [r |-> e.r, c |-> e.c, tried |-> {}])
                /\ pc' = "vals"
                /\ found' = found
    /\ UNCHANGED <<args, env, s, ret, count, work, gen>>

\* backtrack: the next value of vals that isSafe accepts is placed
backtrack_place ==
    /\ pc = "vals"
    /\ fn \in {"Solve", "Generate", "Hint"}
    /\ \E v \in (1..9) \ top.tried :
        /\ isSafe(work, top.r, top.c, v)
        /\ fn = "Generate" => v = Ascending(work, top.r, top.c, top.tried)
        /\ work' = SetCell(work, top.r, top.c, v)
        /\ stack' = [stack EXCEPT ![Len(stack)].tried = @ \cup {v}]
    /\ pc' = "backtrack"
    /\ UNCHANGED <<args, env, s, ret, found, count, gen>>

\* backtrack: vals is exhausted, return false; the caller clears its cell
backtrack_fail ==
    /\ pc = "vals"
    /\ fn \in {"Solve", "Generate", "Hint"}
    /\ \A v \in (1..9) \ top.tried : ~isSafe(work, top.r, top.c, v)
    /\ IF Len(stack) = 1
       THEN /\ found' = FALSE
            /\ stack' = <<>>
            /\ pc' = "return"
            /\ work' = work
       ELSE /\ work' = SetCell(work, stack[Len(stack) - 1].r, stack[Len(stack) - 1].c, 0)
            /\ stack' = SubSeq(stack, 1, Len(stack) - 1)
            /\ pc' = "vals"
            /\ found' = found
    /\ UNCHANGED <<args, env, s, ret, count, gen>>

Solve_return ==
    /\ pc = "return"
    /\ fn = "Solve"
    /\ ret' = IF found THEN <<work, TRUE>> ELSE <<ZeroBoard, FALSE>>
    /\ pc' = "done"
    /\ UNCHANGED <<args, env, s, search, gen>>

\* g.Solve: Clone, then g.backtrack(&work)
Grid_Solve ==
    /\ pc = "start"
    /\ fn = "Grid.Solve"
    /\ work' = Grid_Clone(g)
    /\ pc' = "backtrack"
    /\ UNCHANGED <<args, env, s, ret, stack, found, count, gen>>

Grid_backtrack ==
    /\ pc = "backtrack"
    /\ fn \in {"Grid.Solve", "Grid.Generate", "HintGrid"}
    /\ LET e == Grid_findEmpty(g, work)
       IN  IF ~e.ok
           THEN /\ found' = TRUE
                /\ stack' = <<>>
                /\ pc' = "return"
           ELSE /\ stack' = Append(stack, [r |-> e.r, c |-> e.c, tried |-> {}])
                /\ pc' = "vals"
                /\ found' = found
    /\ UNCHANGED <<args, env, s, ret, count, work, gen>>

\* a faulty variant: the value placed is not struck from vals
Grid_backtrack_place_again ==
    /\ pc = "vals"
    /\ fn \in {"Grid.Solve", "Grid.Generate", "HintGrid"}
    /\ \E v \in (1..g.Size) \ top.tried :
        /\ Grid_isSafe(g, work, top.r, top.c, v)
        /\ work' = [work EXCEPT !.Cells = SetCell(@, top.r, top.c, v)]
    /\ pc' = "backtrack"
    /\ UNCHANGED <<args, env, s, ret, stack, found, count, gen>>

Grid_backtrack_place ==
    /\ pc = "vals"
    /\ fn \in {"Grid.Solve", "Grid.Generate", "HintGrid"}
    /\ \E v \in (1..g.Size) \ top.tried :
        /\ Grid_isSafe(g, work, top.r, top.c, v)
        /\ work' = [work EXCEPT !.Cells = SetCell(@, top.r, top.c, v)]
        /\ stack' = [stack EXCEPT ![Len(stack)].tried = @ \cup {v}]
    /\ pc' = "backtrack"
    /\ UNCHANGED <<args, env, s, ret, found, count, gen>>

\* a faulty variant: the caller leaves its cell as written
Grid_backtrack_fail_noClear ==
    /\ pc = "vals"
    /\ fn \in {"Grid.Solve", "Grid.Generate", "HintGrid"}
    /\ \A v \in (1..g.Size) \ top.tried : ~Grid_isSafe(g, work, top.r, top.c, v)
    /\ IF Len(stack) = 1
       THEN /\ found' = FALSE
            /\ stack' = <<>>
            /\ pc' = "return"
       ELSE /\ stack' = SubSeq(stack, 1, Len(stack) - 1)
            /\ pc' = "vals"
            /\ found' = found
    /\ UNCHANGED <<args, env, s, ret, work, count, gen>>

Grid_backtrack_fail ==
    /\ pc = "vals"
    /\ fn \in {"Grid.Solve", "Grid.Generate", "HintGrid"}
    /\ \A v \in (1..g.Size) \ top.tried : ~Grid_isSafe(g, work, top.r, top.c, v)
    /\ IF Len(stack) = 1
       THEN /\ found' = FALSE
            /\ stack' = <<>>
            /\ pc' = "return"
            /\ work' = work
       ELSE /\ work' = [work EXCEPT !.Cells =
                           SetCell(@, stack[Len(stack) - 1].r, stack[Len(stack) - 1].c, 0)]
            /\ stack' = SubSeq(stack, 1, Len(stack) - 1)
            /\ pc' = "vals"
            /\ found' = found
    /\ UNCHANGED <<args, env, s, ret, count, gen>>

Grid_Solve_return ==
    /\ pc = "return"
    /\ fn = "Grid.Solve"
    /\ ret' = IF found THEN <<work, TRUE>> ELSE <<ZeroGrid, FALSE>>
    /\ pc' = "done"
    /\ UNCHANGED <<args, env, s, search, gen>>

NextSolve ==
    \/ Solve \/ backtrack \/ backtrack_place \/ backtrack_fail \/ Solve_return
    \/ Grid_Solve \/ Grid_backtrack \/ Grid_backtrack_place \/ Grid_backtrack_fail
    \/ Grid_Solve_return

SpecSolve == InitSolve /\ [][NextSolve]_vars

\* g2 has no empty cell and keeps every non-zero cell of g1
Completes(g1, g2, size) ==
    \A p \in AllCells(size) :
        /\ g2[p[1]][p[2]] # 0
        /\ g1[p[1]][p[2]] # 0 => g2[p[1]][p[2]] = g1[p[1]][p[2]]

\* C2 as stated, for every input grid: Solve's ok = true result passes
\* Validate, has no empty cell and keeps every non-zero cell of the input.
C2_SolveSoundAnyInput ==
    /\ (pc = "done" /\ fn = "Solve" /\ ret[2]) =>
          (Validate(ret[1]) = Nil /\ Completes(b, ret[1], 9))
    /\ (pc = "done" /\ fn = "Grid.Solve" /\ ret[2]) =>
          (Grid_Validate(ret[1]) = Nil /\ Completes(g.Cells, ret[1].Cells, g.Size))

(***************************************************************************)
(* C2: for every input grid that passes Validate, if Solve returns         *)
(* ok = true then the returned grid passes Validate, has no empty cell and *)
(* keeps every non-zero cell of the input.                                 *)
(***************************************************************************)
C2_SolveSound ==
    /\ (pc = "done" /\ fn = "Solve" /\ ret[2] /\ Validate(b) = Nil) =>
          (Validate(ret[1]) = Nil /\ Completes(b, ret[1], 9))
    /\ (pc = "done" /\ fn = "Grid.Solve" /\ ret[2] /\ Grid_Validate(g) = Nil) =>
          (Grid_Validate(ret[1]) = Nil /\ Completes(g.Cells, ret[1].Cells, g.Size))

\* a valid grid with empty cells was solved
C2_Witness ==
    /\ pc = "done"
    /\ fn = "Grid.Solve"
    /\ Grid_Validate(g) = Nil
    /\ CountClues(g.Cells, g.Size) < g.Size * g.Size
    /\ ret[2]
    /\ Grid_Validate(ret[1]) = Nil

(***************************************************************************)
(* C3: for every grid that passes Validate, Solve returns ok = true iff    *)
(* the grid has a legal completion, in every order of the candidate values;*)
(* with ok = false it returns the zero-value grid.                         *)
(***************************************************************************)
C3_SolveComplete ==
    /\ (pc = "done" /\ fn = "Solve" /\ Validate(b) = Nil) =>
          /\ ret[2] <=> Completions(b, 9, 3, 3) # {}
          /\ ~ret[2] => ret[1] = ZeroBoard
    /\ (pc = "done" /\ fn = "Grid.Solve" /\ Grid_Validate(g) = Nil) =>
          /\ ret[2] <=> Completions(g.Cells, g.Size, g.BoxRows, g.BoxCols) # {}
          /\ ~ret[2] => ret[1] = ZeroGrid

\* row 0 holds 1..8 and column 0 holds 9: not solvable
C3_Witness ==
    /\ pc = "done"
    /\ fn = "Solve"
    /\ b = UnsolvableBoard
    /\ Validate(b) = Nil
    /\ ret = <<ZeroBoard, FALSE>>

(***************************************************************************)
(* Hint(b) and HintGrid(g): Validate, Solve, then the first empty cell.    *)
(***************************************************************************)
\* return 0, 0, 0, false
NoHint == <<0, 0, 0, FALSE>>

\* a faulty variant: the value read from the board, not from the solution
RECURSIVE Hint_scan_given(_, _, _)
Hint_scan_given(brd, sol, i) ==
    IF i >= 81 THEN NoHint
    ELSE IF brd[i \div 9][i % 9] = 0
         THEN <<i \div 9, i % 9, brd[i \div 9][i % 9], TRUE>>
    ELSE Hint_scan_given(brd, sol, i + 1)

\* the loops of Hint over r and c from cell i = r*9 + c on, sol the solution
RECURSIVE Hint_scan(_, _, _)
Hint_scan(brd, sol, i) ==
    IF i >= 81 THEN NoHint
    ELSE IF brd[i \div 9][i % 9] = 0
         THEN <<i \div 9, i % 9, sol[i \div 9][i % 9], TRUE>>
    ELSE Hint_scan(brd, sol, i + 1)

\* a faulty variant's loop: the cells taken from the last one down
RECURSIVE HintGrid_scan_down(_, _, _)
HintGrid_scan_down(gr, sol, i) ==
    IF i < 0 THEN NoHint
    ELSE IF gr.Cells[i \div gr.Size][i % gr.Size] = 0
         THEN <<i \div gr.Size, i % gr.Size, sol.Cells[i \div gr.Size][i % gr.Size], TRUE>>
    ELSE HintGrid_scan_down(gr, sol, i - 1)

\* a faulty variant: the last empty cell
HintGrid_scan_last(gr, sol, i) == HintGrid_scan_down(gr, sol, gr.Size * gr.Size - 1 - i)

\* the loops of HintGrid over r and c from cell i = r*Size + c on
RECURSIVE HintGrid_scan(_, _, _)
HintGrid_scan(gr, sol, i) ==
    IF i >= gr.Size * gr.Size THEN NoHint
    ELSE IF gr.Cells[i \div gr.Size][i % gr.Size] = 0
         THEN <<i \div gr.Size, i % gr.Size, sol.Cells[i \div gr.Size][i % gr.Size], TRUE>>
    ELSE HintGrid_scan(gr, sol, i + 1)

InitHint ==
    /\ pc = "start"
    /\ ret = None
    /\ s = None
    /\ d = None
    /\ limit = None
    /\ Idle
    /\ dims = None
    /\ Unshared
    /\ \/ fn = "Hint" /\ b \in SolveBoards(MaxEmpty) /\ g = None
       \/ fn = "HintGrid" /\ g \in SolveGrids(MaxEmpty, MaxGivens) /\ b = None

\* Hint: Validate(b); an error returns at once, else Solve(b) copies b
Hint ==
    /\ pc = "start"
    /\ fn = "Hint"
    /\ IF Validate(b) # Nil
       THEN /\ ret' = NoHint
            /\ pc' = "done"
            /\ work' = work
       ELSE /\ work' = b
            /\ pc' = "backtrack"
            /\ ret' = ret
    /\ UNCHANGED <<args, env, s, stack, found, count, gen>>

\* Hint: Solve returned; with ok the first empty cell of b and sol's value
Hint_return ==
    /\ pc = "return"
    /\ fn = "Hint"
    /\ ret' = IF found THEN Hint_scan(b, work, 0) ELSE NoHint
    /\ pc' = "done"
    /\ UNCHANGED <<args, env, s, search, gen>>

\* HintGrid: g.Validate(); an error returns at once, else g.Solve() clones g
HintGrid ==
    /\ pc = "start"
    /\ fn = "HintGrid"
    /\ IF Grid_Validate(g) # Nil
       THEN /\ ret' = NoHint
            /\ pc' = "done"
            /\ work' = work
       ELSE /\ work' = Grid_Clone(g)
            /\ pc' = "backtrack"
            /\ ret' = ret
    /\ UNCHANGED <<args, env, s, stack, found, count, gen>>

HintGrid_return ==
    /\ pc = "return"
    /\ fn = "HintGrid"
    /\ ret' = IF found THEN HintGrid_scan(g, work, 0) ELSE NoHint
    /\ pc' = "done"
    /\ UNCHANGED <<args, env, s, search, gen>>

NextHint ==
    \/ Hint \/ backtrack \/ backtrack_place \/ backtrack_fail \/ Hint_return
    \/ HintGrid \/ Grid_backtrack \/ Grid_backtrack_place \/ Grid_backtrack_fail
    \/ HintGrid_return

SpecHint == InitHint /\ [][NextHint]_vars

\* a hint (r, c, v) for cells of the given size: the cell is in the grid and
\* empty, the value is in 1..size, and the cells with v written stay legal
GoodHint(cells, size, boxRows, boxCols, h) ==
    /\ h[1] \in 0..(size - 1)
    /\ h[2] \in 0..(size - 1)
    /\ h[3] \in 1..size
    /\ cells[h[1]][h[2]] = 0
    /\ Legal(SetCell(cells, h[1], h[2], h[3]), size, boxRows, boxCols)

(***************************************************************************)
(* C12: whenever Hint or HintGrid returns (r, c, v, true), r and c are in  *)
(* 0..size-1, v is in 1..size, the cell was empty before the call, and the *)
(* grid with v written at (r, c) still passes Validate.                    *)
(***************************************************************************)
C12_HintSafe ==
    /\ (pc = "done" /\ fn = "Hint" /\ ret[4]) => GoodHint(b, 9, 3, 3, ret)
    /\ (pc = "done" /\ fn = "HintGrid" /\ ret[4]) =>
          GoodHint(g.Cells, g.Size, g.BoxRows, g.BoxCols, ret)

\* a hint was given for a board with several empty cells
C12_Witness ==
    /\ pc = "done"
    /\ fn = "Hint"
    /\ ret[4]
    /\ CountClues(b, 9) < 80
    /\ GoodHint(b, 9, 3, 3, ret)

\* (r, c) is the first empty cell of cells in row-major order
FirstEmpty(cells, size, r, c) ==
    /\ cells[r][c] = 0
    /\ \A p \in AllCells(size) :
          cells[p[1]][p[2]] = 0 => r * size + c <= p[1] * size + p[2]

\* what the claim says of a hint h for cells, sol being what Solve found
HintAsClaimed(cells, size, boxRows, boxCols, h, sol) ==
    /\ h[4] <=> /\ Legal(cells, size, boxRows, boxCols)
                /\ Completions(cells, size, boxRows, boxCols) # {}
                /\ Empties(cells, size) # {}
    /\ h[4] => /\ FirstEmpty(cells, size, h[1], h[2])
               /\ sol \in Completions(cells, size, boxRows, boxCols)
               /\ h[3] = sol[h[1]][h[2]]
    /\ ~h[4] => h = NoHint

(***************************************************************************)
(* C13: Hint and HintGrid return ok = true exactly when the grid passes    *)
(* Validate, is solvable and has an empty cell; then (r, c) is the first   *)
(* empty cell in row-major order and v its value in the solution Solve     *)
(* found. For an invalid, an unsolvable and a full grid they return        *)
(* ok = false.                                                             *)
(***************************************************************************)
C13_HintFirstEmpty ==
    /\ (pc = "done" /\ fn = "Hint") =>
          HintAsClaimed(b, 9, 3, 3, ret, work)
    /\ (pc = "done" /\ fn = "HintGrid") =>
          HintAsClaimed(g.Cells, g.Size, g.BoxRows, g.BoxCols, ret,
                        IF ret[4] THEN work.Cells ELSE None)

\* a hint was given for a grid whose first cell is filled and which has
\* empty cells after the hinted one
C13_Witness ==
    /\ pc = "done"
    /\ fn = "HintGrid"
    /\ ret[4]
    /\ ret[1] * g.Size + ret[2] > 0
    /\ Cardinality(Empties(g.Cells, g.Size)) > 1
    /\ ret[3] = work.Cells[ret[1]][ret[2]]

(***************************************************************************)
(* g.Generate(d, attempts), one step at a time.                            *)
(***************************************************************************)
GenerateGrids ==
    {NewGrid(2, 1, 2)[1], NewGrid(3, 1, 3)[1], NewGrid(4, 2, 2)[1], NewGrid(6, 2, 3)[1]}

\* the attempts arguments explored: every small value for the grids up to
\* FullPermN, 1 (what the tests pass) for the larger ones
Attempts(size) == IF size <= FullPermN THEN 0..MaxAttempts ELSE {1}

InitGenerate ==
    /\ pc = "start"
    /\ ret = None
    /\ s = None
    /\ limit = None
    /\ work = None
    /\ stack = <<>>
    /\ found = FALSE
    /\ count = 0
    /\ try = 0
    /\ lastErr = Nil
    /\ target = 0
    /\ puzzle = None
    /\ rmOrder = <<>>
    /\ ri = 0
    /\ old = 0
    /\ dims = None
    /\ Unshared
    /\ d \in Difficulties
    /\ \/ /\ fn = "Grid.Generate"
          /\ g \in GenerateGrids
          /\ b = None
          /\ attempts \in Attempts(g.Size)
       \/ /\ fn = "Generate"
          /\ g = None
          /\ b = ZeroBoard
          /\ attempts \in Attempts(9)

\* the first lines: attempts is normalised where it is read, lastErr is nil
Grid_Generate ==
    /\ pc = "start"
    /\ fn = "Grid.Generate"
    /\ try' = 0
    /\ lastErr' = Nil
    /\ pc' = "attempt"
    /\ UNCHANGED <<args, env, s, ret, search, attempts, target, puzzle, rmOrder, ri, old>>

\* try < attempts: Clone, fillDiagonalBoxes, then g.backtrack(&solved)
Grid_Generate_attempt ==
    /\ pc = "attempt"
    /\ fn = "Grid.Generate"
    /\ try < Generate_attempts(attempts)
    /\ \E perms \in SeedPerms(g.Size, Grid_steps(g)) :
          work' = Grid_fillDiagonalBoxes(Grid_Clone(g), perms)
    /\ stack' = <<>>
    /\ pc' = "backtrack"
    /\ UNCHANGED <<args, env, s, ret, found, count, gen>>

\* the loop is over: Grid{} and the last error
Grid_Generate_exhausted ==
    /\ pc = "attempt"
    /\ fn = "Grid.Generate"
    /\ ~(try < Generate_attempts(attempts))
    /\ ret' = <<ZeroGrid, IF lastErr = Nil THEN "generation failed" ELSE lastErr>>
    /\ pc' = "done"
    /\ UNCHANGED <<args, env, s, search, gen>>

\* backtrack returned false: lastErr, continue
Grid_Generate_unsolved ==
    /\ pc = "return"
    /\ fn = "Grid.Generate"
    /\ ~found
    /\ lastErr' = "failed to build solved grid"
    /\ try' = try + 1
    /\ work' = None
    /\ pc' = "attempt"
    /\ UNCHANGED <<args, env, s, ret, stack, found, count, attempts, target, puzzle, rmOrder, ri, old>>

\* backtrack returned true: target, puzzle, rmOrder
Grid_Generate_solved ==
    /\ pc = "return"
    /\ fn = "Grid.Generate"
    /\ found
    /\ target' = Grid_cluesFor(g, d)
    /\ puzzle' = Grid_Clone(work)
    /\ rmOrder' \in PermDown(g.Size * g.Size)
    /\ ri' = 0
    /\ pc' = "carve"
    /\ UNCHANGED <<args, env, s, ret, search, attempts, try, lastErr, old>>

\* the carve loop ends: rmOrder is exhausted or countClues(puzzle) <= target
Grid_Generate_carved ==
    /\ pc = "carve"
    /\ fn = "Grid.Generate"
    /\ ri >= g.Size * g.Size \/ Grid_countClues(g, puzzle) <= target
    /\ pc' = "final"
    /\ UNCHANGED <<args, env, s, ret, search, gen>>

\* one index of rmOrder: an empty cell is skipped, another is cleared
Grid_Generate_carve ==
    /\ pc = "carve"
    /\ fn = "Grid.Generate"
    /\ ri < g.Size * g.Size
    /\ ~(Grid_countClues(g, puzzle) <= target)
    /\ LET r == rmOrder[ri] \div g.Size
           c == rmOrder[ri] % g.Size
       IN  /\ old' = puzzle.Cells[r][c]
           /\ IF puzzle.Cells[r][c] = 0
              THEN /\ ri' = ri + 1
                   /\ pc' = "carve"
                   /\ puzzle' = puzzle
              ELSE /\ puzzle' = [puzzle EXCEPT !.Cells = SetCell(@, r, c, 0)]
                   /\ pc' = "unique"
                   /\ ri' = ri
    /\ UNCHANGED <<args, env, s, ret, search, attempts, try, lastErr, target, rmOrder>>

\* a faulty variant: the cleared cell is never put back
Grid_Generate_unique_keep ==
    /\ pc = "unique"
    /\ fn = "Grid.Generate"
    /\ puzzle' = puzzle
    /\ ri' = ri + 1
    /\ pc' = "carve"
    /\ UNCHANGED <<args, env, s, ret, search, attempts, try, lastErr, target, rmOrder, old>>

\* the cleared cell is put back unless the puzzle stays unique
Grid_Generate_unique ==
    /\ pc = "unique"
    /\ fn = "Grid.Generate"
    /\ puzzle' = IF ~Grid_hasUniqueSolution(g, puzzle, 2)
                 THEN [puzzle EXCEPT !.Cells =
                          SetCell(@, rmOrder[ri] \div g.Size, rmOrder[ri] % g.Size, old)]
                 ELSE puzzle
    /\ ri' = ri + 1
    /\ pc' = "carve"
    /\ UNCHANGED <<args, env, s, ret, search, attempts, try, lastErr, target, rmOrder, old>>

\* the uniqueness check after the loop: return the puzzle, or lastErr
Grid_Generate_final ==
    /\ pc = "final"
    /\ fn = "Grid.Generate"
    /\ IF Grid_hasUniqueSolution(g, puzzle, 2)
       THEN /\ ret' = <<puzzle, Nil>>
            /\ pc' = "done"
            /\ UNCHANGED <<lastErr, try>>
       ELSE /\ lastErr' = "puzzle uniqueness not achieved"
            /\ try' = try + 1
            /\ pc' = "attempt"
            /\ ret' = ret
    /\ UNCHANGED <<args, env, s, search, attempts, target, puzzle, rmOrder, ri, old>>

\* Generate(d, attempts) on a Board: the same steps on var b Board
Generate ==
    /\ pc = "start"
    /\ fn = "Generate"
    /\ try' = 0
    /\ lastErr' = Nil
    /\ pc' = "attempt"
    /\ UNCHANGED <<args, env, s, ret, search, attempts, target, puzzle, rmOrder, ri, old>>

\* the loop head: another attempt (fillDiagonalBoxes, then backtrack(&b)),
\* or Board{} and the last error
Generate_attempt ==
    /\ pc = "attempt"
    /\ fn = "Generate"
    /\ IF try < Generate_attempts(attempts)
       THEN /\ \E perms \in SeedPerms(9, 3) : work' = fillDiagonalBoxes(ZeroBoard, perms)
            /\ stack' = <<>>
            /\ pc' = "backtrack"
            /\ ret' = ret
       ELSE /\ ret' = <<ZeroBoard, IF lastErr = Nil THEN "generation failed" ELSE lastErr>>
            /\ pc' = "done"
            /\ UNCHANGED <<work, stack>>
    /\ UNCHANGED <<args, env, s, found, count, gen>>

\* backtrack returned: lastErr and continue, or target, puzzle, rmOrder
Generate_built ==
    /\ pc = "return"
    /\ fn = "Generate"
    /\ IF ~found
       THEN /\ lastErr' = "failed to build solved board"
            /\ try' = try + 1
            /\ work' = None
            /\ pc' = "attempt"
            /\ UNCHANGED <<target, puzzle, rmOrder, ri>>
       ELSE /\ target' = cluesFor(d)
            /\ puzzle' = work
            /\ rmOrder' \in PermDown(81)
            /\ ri' = 0
            /\ pc' = "carve"
            /\ UNCHANGED <<lastErr, try, work>>
    /\ UNCHANGED <<args, env, s, ret, stack, found, count, attempts, old>>

Generate_carved ==
    /\ pc = "carve"
    /\ fn = "Generate"
    /\ ri >= 81 \/ countClues(puzzle) <= target
    /\ pc' = "final"
    /\ UNCHANGED <<args, env, s, ret, search, gen>>

Generate_carve ==
    /\ pc = "carve"
    /\ fn = "Generate"
    /\ ri < 81
    /\ ~(countClues(puzzle) <= target)
    /\ LET r == rmOrder[ri] \div 9
           c == rmOrder[ri] % 9
       IN  /\ old' = puzzle[r][c]
           /\ IF puzzle[r][c] = 0
              THEN /\ ri' = ri + 1
                   /\ pc' = "carve"
                   /\ puzzle' = puzzle
              ELSE /\ puzzle' = SetCell(puzzle, r, c, 0)
                   /\ pc' = "unique"
                   /\ ri' = ri
    /\ UNCHANGED <<args, env, s, ret, search, attempts, try, lastErr, target, rmOrder>>

Generate_unique ==
    /\ pc = "unique"
    /\ fn = "Generate"
    /\ puzzle' = IF ~hasUniqueSolution(puzzle, 2)
                 THEN SetCell(puzzle, rmOrder[ri] \div 9, rmOrder[ri] % 9, old)
                 ELSE puzzle
    /\ ri' = ri + 1
    /\ pc' = "carve"
    /\ UNCHANGED <<args, env, s, ret, search, attempts, try, lastErr, target, rmOrder, old>>

Generate_final ==
    /\ pc = "final"
    /\ fn = "Generate"
    /\ IF hasUniqueSolution(puzzle, 2)
       THEN /\ ret' = <<puzzle, Nil>>
            /\ pc' = "done"
            /\ UNCHANGED <<lastErr, try>>
       ELSE /\ lastErr' = "puzzle uniqueness not achieved"
            /\ try' = try + 1
            /\ pc' = "attempt"
            /\ ret' = ret
    /\ UNCHANGED <<args, env, s, search, attempts, target, puzzle, rmOrder, ri, old>>

NextGenerate ==
    \/ Generate \/ Generate_attempt
    \/ backtrack \/ backtrack_place \/ backtrack_fail
    \/ Generate_built
    \/ Generate_carved \/ Generate_carve \/ Generate_unique \/ Generate_final
    \/ Grid_Generate \/ Grid_Generate_attempt \/ Grid_Generate_exhausted
    \/ Grid_backtrack \/ Grid_backtrack_place \/ Grid_backtrack_fail
    \/ Grid_Generate_unsolved \/ Grid_Generate_solved
    \/ Grid_Generate_carved \/ Grid_Generate_carve \/ Grid_Generate_unique
    \/ Grid_Generate_final

SpecGenerate == InitGenerate /\ [][NextGenerate]_vars

Min(x, y) == IF x < y THEN x ELSE y

\* Generate is past the choice of rmOrder, puzzle and target are set
Carving == pc \in {"carve", "unique", "final"} \/ (pc = "done" /\ ret[2] = Nil)

(***************************************************************************)
(* C4: whenever Generate or g.Generate returns without error, the puzzle   *)
(* passes Validate and has exactly one legal completion.                   *)
(***************************************************************************)
C4_GeneratedUnique ==
    /\ (pc = "done" /\ fn = "Generate" /\ ret[2] = Nil) =>
          /\ Validate(ret[1]) = Nil
          /\ OneCompletion(ret[1], 9, 3, 3)
    /\ (pc = "done" /\ fn = "Grid.Generate" /\ ret[2] = Nil) =>
          /\ Grid_Validate(ret[1]) = Nil
          /\ OneCompletion(ret[1].Cells, g.Size, g.BoxRows, g.BoxCols)

\* a 6x6 puzzle with empty cells was returned
C4_Witness ==
    /\ pc = "done"
    /\ fn = "Grid.Generate"
    /\ g.Size = 6
    /\ ret[2] = Nil
    /\ CountClues(ret[1].Cells, 6) < 36
    /\ OneCompletion(ret[1].Cells, 6, 2, 3)

\* C6 as stated: a successful Generate returns a puzzle with exactly the
\* target number of clues of its difficulty (40 Easy, 32 Medium, 26 Hard).
C6_CluesEqualTarget ==
    (pc = "done" /\ fn = "Generate" /\ ret[2] = Nil) =>
        CountClues(ret[1], 9) = ClaimedBase(d)

(***************************************************************************)
(* C7: in every state of Generate the puzzle has at least                  *)
(* min(target, size*size) clues; a cell is cleared only while the count is *)
(* above target, so the returned puzzle has at least target clues.         *)
(***************************************************************************)
C7_CluesAtLeastTarget ==
    /\ (fn = "Generate" /\ Carving) =>
          /\ CountClues(puzzle, 9) >= Min(target, 81)
          /\ pc = "unique" => CountClues(puzzle, 9) >= target
          /\ pc = "done" => CountClues(ret[1], 9) >= Min(ClaimedBase(d), 81)
    /\ (fn = "Grid.Generate" /\ Carving) =>
          /\ CountClues(puzzle.Cells, g.Size) >= Min(target, g.Size * g.Size)
          /\ pc = "unique" => CountClues(puzzle.Cells, g.Size) >= target
          /\ pc = "done" =>
                CountClues(ret[1].Cells, g.Size) >= Min(Grid_cluesFor(g, d), g.Size * g.Size)

\* a cell was cleared with the count one above target
C7_Witness ==
    /\ pc = "unique"
    /\ fn = "Grid.Generate"
    /\ g.Size = 6
    /\ CountClues(puzzle.Cells, 6) = target

\* the attempts Generate has started
Started ==
    try + (IF pc \in {"backtrack", "vals", "return", "carve", "unique", "final"}
              \/ (pc = "done" /\ ret[2] = Nil)
           THEN 1 ELSE 0)

(***************************************************************************)
(* C9: Generate treats attempts < 1 as 1, starts at most attempts          *)
(* attempts, returns the puzzle of the first attempt that passes the final *)
(* uniqueness check, and when every attempt failed returns a non-nil error *)
(* with the zero-value grid.                                               *)
(***************************************************************************)
C9_AttemptsBudget ==
    fn \in {"Generate", "Grid.Generate"} =>
        /\ Started <= (IF attempts < 1 THEN 1 ELSE attempts)
        /\ (pc = "done" /\ ret[2] = Nil) =>
              /\ ret[1] = puzzle
              /\ lastErr \in {Nil, "failed to build solved board", "failed to build solved grid"}
        /\ (pc = "done" /\ ret[2] # Nil) =>
              /\ ret[1] = (IF fn = "Generate" THEN ZeroBoard ELSE ZeroGrid)
              /\ try = (IF attempts < 1 THEN 1 ELSE attempts)

\* attempts = 0: one attempt was made and failed
C9_Witness ==
    /\ pc = "done"
    /\ fn = "Grid.Generate"
    /\ attempts = 0
    /\ try = 1
    /\ ret = <<ZeroGrid, "failed to build solved grid">>

(***************************************************************************)
(* The shared random source globalRand (sudoku.go), a PCG of math/rand/v2  *)
(* scaled down: a linear congruential state whose high bits are the       *)
(* output. Shuffle and Perm are those of math/rand/v2.                     *)
(***************************************************************************)
\* the states of the source
RandMod == 64
RandStates == 0..(RandMod - 1)
\* the state after one output
Rand_step(st) == (st * 5 + 3) % RandMod
\* r.uint64n(n): a value in 0..n-1 and the state after it
Rand_uint64n(st, n) == [v |-> (Rand_step(st) \div 4) % n, st |-> Rand_step(st)]

\* vals with the entries at i and j exchanged
Swapped(vals, i, j) == [vals EXCEPT ![i] = vals[j], ![j] = vals[i]]

\* r.Shuffle(n, swap) from i down: for i := n - 1; i > 0; i-- { j := uint64n(i + 1); swap(i, j) }
RECURSIVE Rand_Shuffle(_, _, _)
Rand_Shuffle(vals, i, st) ==
    IF i <= 0 THEN [vals |-> vals, st |-> st]
    ELSE LET j == Rand_uint64n(st, i + 1)
         IN  Rand_Shuffle(Swapped(vals, i, j.v), i - 1, j.st)

\* r.Perm(n): 0..n-1 shuffled
Rand_Perm(n, st) == Rand_Shuffle([i \in 0..(n - 1) |-> i], n - 1, st)

\* a faulty variant: the old source is kept
SetRandSeed_kept(st, sd) == st

\* SetRandSeed(seed): a new source whose state the seed alone decides
SetRandSeed_state(st, sd) == sd % RandMod

(***************************************************************************)
(* backtrack and Grid.backtrack as functions of the grid and the state of  *)
(* the source: the result, the grid left behind and the state left behind. *)
(***************************************************************************)
RECURSIVE backtrack_run(_, _), backtrack_loop(_, _, _, _, _, _)
backtrack_run(brd, st) ==
    LET e == findEmpty(brd)
    IN  IF ~e.ok THEN [ok |-> TRUE, b |-> brd, st |-> st]
        ELSE LET sh == Rand_Shuffle([i \in 0..8 |-> i + 1], 8, st)
             IN  backtrack_loop(brd, e.r, e.c, sh.vals, 0, sh.st)

\* the loop over vals from vals[k] on: the values isSafe refuses are passed
\* over, the first one it allows is tried
backtrack_loop(brd, r, c, vals, k, st) ==
    LET safe == {j \in k..8 : isSafe(brd, r, c, vals[j])}
    IN  IF safe = {} THEN [ok |-> FALSE, b |-> brd, st |-> st]
        ELSE LET j == CHOOSE x \in safe : \A y \in safe : x <= y
                 sub == backtrack_run(SetCell(brd, r, c, vals[j]), st)
             IN  IF sub.ok THEN sub
                 ELSE backtrack_loop(SetCell(sub.b, r, c, 0), r, c, vals, j + 1, sub.st)

\* Solve(b) with the source in state st: the pair returned and the state left
Solve_run(brd, st) ==
    LET run == backtrack_run(brd, st)
    IN  [ret |-> IF run.ok THEN <<run.b, TRUE>> ELSE <<ZeroBoard, FALSE>>, st |-> run.st]

RECURSIVE Grid_backtrack_run(_, _, _), Grid_backtrack_loop(_, _, _, _, _, _, _)
Grid_backtrack_run(gr, w, st) ==
    LET e == Grid_findEmpty(gr, w)
    IN  IF ~e.ok THEN [ok |-> TRUE, w |-> w, st |-> st]
        ELSE LET sh == Rand_Shuffle([i \in 0..(gr.Size - 1) |-> i + 1], gr.Size - 1, st)
             IN  Grid_backtrack_loop(gr, w, e.r, e.c, sh.vals, 0, sh.st)

Grid_backtrack_loop(gr, w, r, c, vals, k, st) ==
    LET safe == {j \in k..(gr.Size - 1) : Grid_isSafe(gr, w, r, c, vals[j])}
    IN  IF safe = {} THEN [ok |-> FALSE, w |-> w, st |-> st]
        ELSE LET j == CHOOSE x \in safe : \A y \in safe : x <= y
                 sub == Grid_backtrack_run(gr, [w EXCEPT !.Cells[r][c] = vals[j]], st)
             IN  IF sub.ok THEN sub
                 ELSE Grid_backtrack_loop(gr, [sub.w EXCEPT !.Cells[r][c] = 0],
                                          r, c, vals, j + 1, sub.st)

\* g.Solve() with the source in state st
Grid_Solve_run(gr, st) ==
    LET run == Grid_backtrack_run(gr, Grid_Clone(gr), st)
    IN  [ret |-> IF run.ok THEN <<run.w, TRUE>> ELSE <<ZeroGrid, FALSE>>, st |-> run.st]

(***************************************************************************)
(* The caller's grid and the copies the calls work on.  A Grid's Cells is  *)
(* a slice of row slices: here Cells[r] is the address of row r and heap   *)
(* holds the rows, so that two grids may share their rows.                 *)
(***************************************************************************)
\* the grid of values that gr, a grid of row addresses, stands for in heap h
Load(h, gr) == [gr EXCEPT !.Cells = [r \in DOMAIN gr.Cells |-> h[gr.Cells[r]]]]

\* heap h after the rows of gr were written with cells
Store(h, gr, cells) ==
    [a \in DOMAIN h |->
        IF \E r \in DOMAIN gr.Cells : gr.Cells[r] = a
        THEN cells[CHOOSE r \in DOMAIN gr.Cells : gr.Cells[r] = a]
        ELSE h[a]]

\* a faulty variant: the copy shares the rows of the original
Grid_Clone_shared(h, gr) == [g |-> gr, heap |-> h]

\* Grid.Clone on the heap: NewGrid makes new rows, copy fills them
Grid_Clone_heap(h, gr) ==
    [g |-> [gr EXCEPT !.Cells = [r \in 0..(gr.Size - 1) |-> Len(h) + r + 1]],
     heap |-> h \o [i \in 1..gr.Size |-> h[gr.Cells[i - 1]]]]

\* a few states of the source
SomeRandStates == {st \in RandStates : st % 16 = 0}

\* the calls that are given the caller's grid
FrameCalls == {"Grid.Validate", "Grid.Solve", "HintGrid", "Grid.hasUniqueSolution", "Grid.Clone"}

InitFrame ==
    /\ pc = "start"
    /\ ret = None
    /\ s = None
    /\ d = None
    /\ b = None
    /\ dims = None
    /\ Idle
    /\ fn \in FrameCalls
    /\ limit \in (IF fn = "Grid.hasUniqueSolution" THEN {1, 2} ELSE {None})
    /\ globalRand \in SomeRandStates
    /\ seed = None
    /\ reqs = None
    /\ \E gr \in SolveGrids(MaxClues, MaxClues) :
          /\ seen = gr
          /\ g = [gr EXCEPT !.Cells = [r \in 0..(gr.Size - 1) |-> r + 1]]
          /\ heap = [i \in 1..gr.Size |-> gr.Cells[i - 1]]

\* g.Validate() reads the cells
Frame_Validate ==
    /\ pc = "start"
    /\ fn = "Grid.Validate"
    /\ ret' = Grid_Validate(Load(heap, g))
    /\ pc' = "done"
    /\ UNCHANGED <<args, reqs, dims, globalRand, seed, heap, seen, s, search, gen>>

\* g.Solve(): work := g.Clone(), backtrack(&work) writes the rows of work
Frame_Solve ==
    /\ pc = "start"
    /\ fn = "Grid.Solve"
    /\ LET cl == Grid_Clone_heap(heap, g)
           run == Grid_backtrack_run(Load(heap, g), Load(cl.heap, cl.g), globalRand)
       IN  /\ heap' = Store(cl.heap, cl.g, run.w.Cells)
           /\ ret' = IF run.ok THEN <<cl.g, TRUE>> ELSE <<ZeroGrid, FALSE>>
           /\ globalRand' = run.st
    /\ pc' = "done"
    /\ UNCHANGED <<args, reqs, dims, seed, seen, s, search, gen>>

\* HintGrid(g): g.Validate(), g.Solve(), then the scan of g's cells
Frame_HintGrid ==
    /\ pc = "start"
    /\ fn = "HintGrid"
    /\ IF Grid_Validate(Load(heap, g)) # Nil
       THEN /\ ret' = NoHint
            /\ UNCHANGED <<heap, globalRand>>
       ELSE LET cl == Grid_Clone_heap(heap, g)
                run == Grid_backtrack_run(Load(heap, g), Load(cl.heap, cl.g), globalRand)
                after == Store(cl.heap, cl.g, run.w.Cells)
            IN  /\ heap' = after
                /\ globalRand' = run.st
                /\ ret' = IF run.ok
                          THEN HintGrid_scan(Load(after, g), Load(after, cl.g), 0)
                          ELSE NoHint
    /\ pc' = "done"
    /\ UNCHANGED <<args, reqs, dims, seed, seen, s, search, gen>>

\* g.hasUniqueSolution(g, limit): work := w.Clone(), dfs(&work) writes the
\* rows of work and leaves them filled when it stops at limit
Frame_hasUniqueSolution ==
    /\ pc = "start"
    /\ fn = "Grid.hasUniqueSolution"
    /\ LET cl == Grid_Clone_heap(heap, g)
           run == Grid_dfs(Load(heap, g), Load(cl.heap, cl.g), 0, limit)
       IN  /\ heap' = Store(cl.heap, cl.g, run.cur.Cells)
           /\ ret' = (run.count = 1)
    /\ pc' = "done"
    /\ UNCHANGED <<args, reqs, dims, globalRand, seed, seen, s, search, gen>>

\* c := g.Clone(); c.Cells[0][0] = v for some other value v
Frame_Clone ==
    /\ pc = "start"
    /\ fn = "Grid.Clone"
    /\ LET cl == Grid_Clone_heap(heap, g)
           cells == Load(cl.heap, cl.g).Cells
       IN  /\ \E v \in (0..g.Size) \ {cells[0][0]} :
                  heap' = Store(cl.heap, cl.g, SetCell(cells, 0, 0, v))
           /\ ret' = cl.g
    /\ pc' = "done"
    /\ UNCHANGED <<args, reqs, dims, globalRand, seed, seen, s, search, gen>>

NextFrame ==
    Frame_Validate \/ Frame_Solve \/ Frame_HintGrid \/ Frame_hasUniqueSolution \/ Frame_Clone

SpecFrame == InitFrame /\ [][NextFrame]_vars

(***************************************************************************)
(* C14: Validate, Solve, HintGrid and the uniqueness check leave the       *)
(* caller's grid as it was, on success and on failure, and a write to a    *)
(* Clone does not change the original.                                     *)
(***************************************************************************)
C14_CallerUnchanged == Load(heap, g) = seen

\* Solve filled its copy, HintGrid gave a hint, the uniqueness check stopped
\* with its copy filled, or the clone was written: the copy differs
C14_Witness ==
    /\ pc = "done"
    /\ fn = "Grid.Solve"
    /\ ret[2]
    /\ Load(heap, ret[1]) # seen
    /\ Load(heap, g) = seen

(***************************************************************************)
(* Grid.Generate as a function of the receiver, the arguments and the      *)
(* state of the source.                                                    *)
(***************************************************************************)
\* fillDiagonalBoxes from box i on: each fillBox takes one Perm
RECURSIVE Grid_fillDiagonalBoxes_run(_, _, _)
Grid_fillDiagonalBoxes_run(gr, i, st) ==
    IF i >= Grid_steps(gr) THEN [g |-> gr, st |-> st]
    ELSE LET vals == Rand_Perm(gr.Size, st)
         IN  Grid_fillDiagonalBoxes_run(
                 Grid_fillBox(gr, i * gr.BoxRows, i * gr.BoxCols, vals.vals), i + 1, vals.st)

\* the carve loop from rmOrder[k] on: the puzzle it leaves
RECURSIVE Grid_Generate_carve_run(_, _, _, _, _)
Grid_Generate_carve_run(gr, puz, order, k, tgt) ==
    IF k >= gr.Size * gr.Size THEN puz
    ELSE IF Grid_countClues(gr, puz) <= tgt THEN puz
    ELSE LET r == order[k] \div gr.Size
             c == order[k] % gr.Size
             cleared == [puz EXCEPT !.Cells[r][c] = 0]
         IN  IF puz.Cells[r][c] = 0
             THEN Grid_Generate_carve_run(gr, puz, order, k + 1, tgt)
             ELSE IF ~Grid_hasUniqueSolution(gr, cleared, 2)
             THEN Grid_Generate_carve_run(gr, puz, order, k + 1, tgt)
             ELSE Grid_Generate_carve_run(gr, cleared, order, k + 1, tgt)

\* the loop over try from try_ on
RECURSIVE Grid_Generate_try(_, _, _, _, _, _)
Grid_Generate_try(gr, dif, n, try_, err, st) ==
    IF try_ >= n
    THEN [ret |-> <<ZeroGrid, IF err = Nil THEN "generation failed" ELSE err>>, st |-> st]
    ELSE LET solved == Grid_fillDiagonalBoxes_run(Grid_Clone(gr), 0, st)
             run == Grid_backtrack_run(gr, solved.g, solved.st)
         IN  IF ~run.ok
             THEN Grid_Generate_try(gr, dif, n, try_ + 1, "failed to build solved grid", run.st)
             ELSE LET order == Rand_Perm(gr.Size * gr.Size, run.st)
                      puz == Grid_Generate_carve_run(gr, Grid_Clone(run.w), order.vals, 0,
                                                     Grid_cluesFor(gr, dif))
                  IN  IF Grid_hasUniqueSolution(gr, puz, 2)
                      THEN [ret |-> <<puz, Nil>>, st |-> order.st]
                      ELSE Grid_Generate_try(gr, dif, n, try_ + 1,
                                             "puzzle uniqueness not achieved", order.st)

\* g.Generate(d, attempts) with the source in state st
Grid_Generate_run(gr, dif, n, st) ==
    Grid_Generate_try(gr, dif, Generate_attempts(n), 0, Nil, st)

(***************************************************************************)
(* Two runs of the same calls, the second in a process whose source starts *)
(* in another state: SetRandSeed(seed) then g.Generate(d, attempts), or    *)
(* Solve alone.                                                            *)
(***************************************************************************)
\* largest seed given to SetRandSeed
MaxSeed == 2

InitRuns ==
    /\ pc = "start"
    /\ ret = None
    /\ s = None
    /\ limit = None
    /\ dims = None
    /\ heap = None
    /\ reqs = None
    /\ work = None
    /\ stack = <<>>
    /\ found = FALSE
    /\ count = 0
    /\ try = 0
    /\ lastErr = Nil
    /\ target = 0
    /\ puzzle = None
    /\ rmOrder = <<>>
    /\ ri = 0
    /\ old = 0
    /\ seen = <<>>
    /\ globalRand \in SomeRandStates
    /\ \/ /\ fn = "Grid.Generate"
          /\ g \in {gr \in GenerateGrids : gr.Size <= FullPermN}
          /\ b = None
          /\ d \in Difficulties
          /\ attempts \in 0..MaxAttempts
          /\ seed \in 0..MaxSeed
       \/ /\ fn = "Grid.Solve"
          /\ g \in SolveGrids(MaxClues, MaxClues)
          /\ b = None
          /\ d = None
          /\ attempts = 0
          /\ seed = None
       \/ /\ fn = "Solve"
          /\ b \in BlankedBoards(MaxEmpty)
          /\ g = None
          /\ d = None
          /\ attempts = 0
          /\ seed = None

\* SetRandSeed(seed) replaces the source
SetRandSeed ==
    /\ pc = "start"
    /\ fn = "Grid.Generate"
    /\ globalRand' = SetRandSeed_state(globalRand, seed)
    /\ pc' = "seeded"
    /\ UNCHANGED <<args, reqs, dims, seed, heap, seen, s, ret, search, gen>>

Runs_Grid_Generate ==
    /\ pc = "seeded"
    /\ fn = "Grid.Generate"
    /\ LET run == Grid_Generate_run(g, d, attempts, globalRand)
       IN  /\ ret' = run.ret
           /\ globalRand' = run.st
    /\ pc' = "done"
    /\ UNCHANGED <<args, reqs, dims, seed, heap, seen, s, search, gen>>

Runs_Grid_Solve ==
    /\ pc = "start"
    /\ fn = "Grid.Solve"
    /\ LET run == Grid_Solve_run(g, globalRand)
       IN  /\ ret' = run.ret
           /\ globalRand' = run.st
    /\ pc' = "done"
    /\ UNCHANGED <<args, reqs, dims, seed, heap, seen, s, search, gen>>

Runs_Solve ==
    /\ pc = "start"
    /\ fn = "Solve"
    /\ LET run == Solve_run(b, globalRand)
       IN  /\ ret' = run.ret
           /\ globalRand' = run.st
    /\ pc' = "done"
    /\ UNCHANGED <<args, reqs, dims, seed, heap, seen, s, search, gen>>

\* the result is kept; the same calls start again with the source of a new
\* process, initialised from random seeds
Runs_again ==
    /\ pc = "done"
    /\ seen = <<>>
    /\ seen' = <<ret>>
    /\ ret' = None
    /\ globalRand' \in SomeRandStates
    /\ pc' = "start"
    /\ UNCHANGED <<args, reqs, dims, seed, heap, s, search, gen>>

NextRuns == SetRandSeed \/ Runs_Grid_Generate \/ Runs_Grid_Solve \/ Runs_Solve \/ Runs_again

SpecRuns == InitRuns /\ [][NextRuns]_vars

C16_SolveDeterministic ==
    (pc = "done" /\ fn \in {"Solve", "Grid.Solve"} /\ seen # <<>>) => ret = seen[1]

(***************************************************************************)
(* The HTTP server (cmd/server/main.go): handleGenerate and handleSolve.   *)
(* net/http runs the handler of every request in a goroutine of its own,   *)
(* so the handlers of the requests in flight interleave.  A call of the    *)
(* library is followed draw by draw: every Perm and Shuffle reads the      *)
(* state of globalRand and writes the advanced state back, with nothing    *)
(* between the two that keeps another goroutine out.                       *)
(***************************************************************************)
\* requests served at once
MaxRequests == 2
\* most draws from the source followed within one call of the library
MaxDraws == 2

StatusOK == 200
StatusBadRequest == 400
StatusMethodNotAllowed == 405
StatusUnprocessableEntity == 422
StatusInternalServerError == 500

MethodGet == "GET"
MethodPost == "POST"

\* fmt.Sscanf(req.Box, "%dx%d", &br, &bc) on the boxes sent: <<br, bc>>, or
\* <<>> when it returns an error
Sscanf_box(box) ==
    CASE box = "2x2" -> <<2, 2>>
      [] box = "2x3" -> <<2, 3>>
      [] box = "-2x-2" -> <<-2, -2>>
      [] OTHER -> <<>>

\* a request to /generate: method, whether the body decodes, and its fields
GenerateRequest(method, json, difficulty, includeSolution, size, box) ==
    [h |-> "generate", method |-> method, json |-> json, difficulty |-> difficulty,
     includeSolution |-> includeSolution, size |-> size, box |-> box, attempts |-> 0,
     puzzle |-> <<>>, string |-> <<>>]

\* a request to /solve: puzzle is <<>> for a nil pointer, string <<>> for ""
SolveRequest(method, json, pz, str) ==
    [h |-> "solve", method |-> method, json |-> json, difficulty |-> "",
     includeSolution |-> FALSE, size |-> 0, box |-> "", attempts |-> 0,
     puzzle |-> pz, string |-> str]

DifficultyStrings == {"", Easy, Medium, Hard, "expert"}

GenerateRequests ==
    {GenerateRequest(MethodPost, TRUE, dif, FALSE, 0, "") : dif \in DifficultyStrings}
        \cup {GenerateRequest(MethodPost, TRUE, Hard, TRUE, 0, ""),
              GenerateRequest(MethodGet, TRUE, "", FALSE, 0, ""),
              GenerateRequest(MethodGet, TRUE, Medium, FALSE, 0, ""),
              GenerateRequest(MethodPost, FALSE, "", FALSE, 0, ""),
              GenerateRequest(MethodPost, TRUE, Medium, FALSE, 4, "2x2"),
              GenerateRequest(MethodPost, TRUE, "", FALSE, 4, "2x2"),
              GenerateRequest(MethodPost, TRUE, Easy, FALSE, 4, ""),
              GenerateRequest(MethodPost, TRUE, "", FALSE, 0, "2x2"),
              GenerateRequest(MethodPost, TRUE, Easy, FALSE, 4, "2x3"),
              GenerateRequest(MethodPost, TRUE, Easy, FALSE, 4, "-2x-2"),
              GenerateRequest(MethodPost, TRUE, Easy, FALSE, 4, "x"),
              GenerateRequest(MethodPost, TRUE, Hard, FALSE, 26, "2x2"),
              GenerateRequest(MethodPost, TRUE, "expert", FALSE, 4, "2x2")}

SolveRequests ==
    {SolveRequest(MethodGet, TRUE, <<SolvedBoard>>, <<>>),
     SolveRequest(MethodPost, FALSE, <<>>, <<>>),
     SolveRequest(MethodPost, TRUE, <<>>, <<>>),
     SolveRequest(MethodPost, TRUE, <<SolvedBoard>>, <<>>),
     SolveRequest(MethodPost, TRUE, <<SetCell(SolvedBoard, 0, 0, 3)>>, <<>>),
     SolveRequest(MethodPost, TRUE, <<Blanked(SolvedBoard, 9, {<<0, 0>>, <<8, 8>>})>>, <<>>),
     SolveRequest(MethodPost, TRUE, <<UnsolvableBoard>>, <<>>),
     SolveRequest(MethodPost, TRUE, <<>>, Board_String(Blanked(SolvedBoard, 9, {<<0, 0>>}))),
     SolveRequest(MethodPost, TRUE, <<>>, <<ByteX>>),
     SolveRequest(MethodPost, TRUE, <<SetCell(SolvedBoard, 0, 0, 3)>>,
                  Board_String(Blanked(SolvedBoard, 9, {<<0, 0>>}))),
     SolveRequest(MethodPost, TRUE, <<Blanked(SolvedBoard, 9, {<<8, 8>>})>>, <<ByteX>>)}

\* the goroutine of a request before its handler runs
Serving(rq) ==
    [req |-> rq, pc |-> "recv", d |-> "", attempts |-> 0, brd |-> <<>>, n |-> 0, k |-> 0,
     reading |-> FALSE, local |-> 0, generated |-> FALSE, status |-> 0, solution |-> <<>>]

InitServer ==
    /\ fn = None
    /\ pc = None
    /\ b = None
    /\ g = None
    /\ s = None
    /\ d = None
    /\ limit = None
    /\ ret = None
    /\ dims = None
    /\ seed = None
    /\ heap = None
    /\ seen = None
    /\ Idle
    /\ globalRand \in SomeRandStates
    /\ reqs \in [1..MaxRequests -> {Serving(rq) : rq \in GenerateRequests \cup SolveRequests}]

\* writeJSON(w, status, ...); return
Responded(h, status) == [h EXCEPT !.pc = "done", !.status = status]

\* the handler enters a call of the library that makes n draws
Calling(h, call, n) == [h EXCEPT !.pc = call, !.n = n, !.k = 0]

\* the switch on req.Difficulty: the Difficulty, or <<>> for the default case
handleGenerate_difficulty(difficulty) ==
    CASE difficulty \in {Easy, ""} -> <<Easy>>
      [] difficulty = Medium -> <<Medium>>
      [] difficulty = Hard -> <<Hard>>
      [] OTHER -> <<>>

\* if req.Attempts < 1 { req.Attempts = 3 }
handleGenerate_attempts(n) == IF n < 1 THEN 3 ELSE n

\* handleGenerate up to its call of Generate or g.Generate
handleGenerate ==
    \E i \in DOMAIN reqs, n \in 1..MaxDraws :
        LET h == reqs[i]
            rq == h.req
            dif == handleGenerate_difficulty(rq.difficulty)
            bx == Sscanf_box(rq.box)
        IN  /\ h.pc = "recv"
            /\ rq.h = "generate"
            /\ reqs' = [reqs EXCEPT ![i] =
                  IF rq.method # MethodPost THEN Responded(h, StatusMethodNotAllowed)
                  ELSE IF ~rq.json THEN Responded(h, StatusBadRequest)
                  ELSE IF dif = <<>> THEN Responded(h, StatusBadRequest)
                  ELSE LET h2 == [h EXCEPT !.d = dif[1],
                                           !.attempts = handleGenerate_attempts(rq.attempts)]
                       IN  IF rq.size = 0 /\ rq.box = ""
                           THEN Calling([h2 EXCEPT !.generated = TRUE], "Generate", n)
                           ELSE IF rq.size <= 0 \/ rq.box = ""
                           THEN Responded(h2, StatusBadRequest)
                           ELSE IF rq.size > MaxGridSize
                           THEN Responded(h2, StatusBadRequest)
                           ELSE IF bx = <<>> THEN Responded(h2, StatusBadRequest)
                           ELSE IF bx[1] * bx[2] # rq.size THEN Responded(h2, StatusBadRequest)
                           ELSE IF NewGrid(rq.size, bx[1], bx[2])[2] # Nil
                           THEN Responded(h2, StatusBadRequest)
                           ELSE Calling([h2 EXCEPT !.generated = TRUE], "Grid.Generate", n)]
            /\ UNCHANGED <<args, pc, s, ret, search, gen, dims, globalRand, seed, heap, seen>>

\* a faulty variant: the puzzle array is taken as it comes, without Validate
handleSolve_board_unchecked(rq) ==
    IF rq.method # MethodPost THEN [status |-> StatusMethodNotAllowed, brd |-> <<>>]
    ELSE IF ~rq.json THEN [status |-> StatusBadRequest, brd |-> <<>>]
    ELSE IF rq.puzzle # <<>> THEN [status |-> 0, brd |-> rq.puzzle]
    ELSE IF rq.string # <<>>
    THEN IF FromString(rq.string)[2] # Nil THEN [status |-> StatusBadRequest, brd |-> <<>>]
         ELSE [status |-> 0, brd |-> <<FromString(rq.string)[1]>>]
    ELSE [status |-> StatusBadRequest, brd |-> <<>>]

\* handleSolve before Solve: the status it answers with and returns, or
\* status 0 and the board b it goes on with
handleSolve_board(rq) ==
    IF rq.method # MethodPost THEN [status |-> StatusMethodNotAllowed, brd |-> <<>>]
    ELSE IF ~rq.json THEN [status |-> StatusBadRequest, brd |-> <<>>]
    ELSE IF rq.puzzle # <<>>
    THEN IF Validate(rq.puzzle[1]) # Nil THEN [status |-> StatusBadRequest, brd |-> <<>>]
         ELSE [status |-> 0, brd |-> rq.puzzle]
    ELSE IF rq.string # <<>>
    THEN IF FromString(rq.string)[2] # Nil THEN [status |-> StatusBadRequest, brd |-> <<>>]
         ELSE [status |-> 0, brd |-> <<FromString(rq.string)[1]>>]
    ELSE [status |-> StatusBadRequest, brd |-> <<>>]

\* handleSolve up to its call of Solve
handleSolve ==
    \E i \in DOMAIN reqs, n \in 1..MaxDraws :
        LET h == reqs[i]
            rq == h.req
            chk == handleSolve_board(rq)
        IN  /\ h.pc = "recv"
            /\ rq.h = "solve"
            /\ reqs' = [reqs EXCEPT ![i] =
                  IF chk.status # 0 THEN Responded(h, chk.status)
                  ELSE Calling([h EXCEPT !.brd = chk.brd], "Solve",
                               IF Empties(chk.brd[1], 9) = {} THEN 0 ELSE n)]
            /\ UNCHANGED <<args, pc, s, ret, search, gen, dims, globalRand, seed, heap, seen>>

\* a Perm or Shuffle inside the call reads the state of the source
Rand_read ==
    \E i \in DOMAIN reqs :
        /\ reqs[i].pc \in {"Generate", "Grid.Generate", "Solve"}
        /\ ~reqs[i].reading
        /\ reqs[i].k < reqs[i].n
        /\ reqs' = [reqs EXCEPT ![i].reading = TRUE, ![i].local = globalRand]
        /\ UNCHANGED <<args, pc, s, ret, search, gen, dims, globalRand, seed, heap, seen>>

\* ... and writes back the state advanced from the one it read
Rand_write ==
    \E i \in DOMAIN reqs :
        /\ reqs[i].reading
        /\ globalRand' = Rand_step(reqs[i].local)
        /\ reqs' = [reqs EXCEPT ![i].reading = FALSE, ![i].k = reqs[i].k + 1]
        /\ UNCHANGED <<args, pc, s, ret, search, gen, dims, seed, heap, seen>>

\* Generate returned: an error gives 500; with includeSolution the puzzle,
\* which has empty cells, is passed to Solve
Server_Generate_return ==
    \E i \in DOMAIN reqs, ok \in BOOLEAN, n \in 1..MaxDraws :
        LET h == reqs[i]
        IN  /\ h.pc \in {"Generate", "Grid.Generate"}
            /\ h.k = h.n
            /\ ~h.reading
            /\ reqs' = [reqs EXCEPT ![i] =
                  IF ~ok THEN Responded(h, StatusInternalServerError)
                  ELSE IF h.pc = "Generate" /\ h.req.includeSolution
                  THEN Calling(h, "Solve", n)
                  ELSE Responded(h, StatusOK)]
            /\ UNCHANGED <<args, pc, s, ret, search, gen, dims, globalRand, seed, heap, seen>>

\* Solve returned
Server_Solve_return ==
    \E i \in DOMAIN reqs :
        LET h == reqs[i]
        IN  /\ h.pc = "Solve"
            /\ h.k = h.n
            /\ ~h.reading
            /\ reqs' = [reqs EXCEPT ![i] =
                  IF h.req.h = "generate" THEN Responded(h, StatusOK)
                  ELSE IF Solve_run(h.brd[1], globalRand).ret[2]
                  THEN [Responded(h, StatusOK) EXCEPT
                           !.solution = <<Solve_run(h.brd[1], globalRand).ret[1]>>]
                  ELSE Responded(h, StatusUnprocessableEntity)]
            /\ UNCHANGED <<args, pc, s, ret, search, gen, dims, globalRand, seed, heap, seen>>

NextServer ==
    handleGenerate \/ handleSolve \/ Rand_read \/ Rand_write \/ Server_Generate_return \/ Server_Solve_return

SpecServer == InitServer /\ [][NextServer]_vars

\* one request served alone
InitHandler ==
    /\ fn = None
    /\ pc = None
    /\ b = None
    /\ g = None
    /\ s = None
    /\ d = None
    /\ limit = None
    /\ ret = None
    /\ dims = None
    /\ seed = None
    /\ heap = None
    /\ seen = None
    /\ Idle
    /\ globalRand \in RandStates
    /\ reqs \in [{1} -> {Serving(rq) : rq \in GenerateRequests \cup SolveRequests}]

SpecHandler == InitHandler /\ [][NextServer]_vars

\* request i is inside a puzzle operation that uses the shared source
InOperation(i) ==
    /\ reqs[i].pc \in {"Generate", "Grid.Generate", "Solve"}
    /\ reqs[i].n > 0

\* C17 as stated: at any time at most one puzzle operation reads, advances
\* or replaces the shared random source, concurrent HTTP requests included.
C17_OneOperationAtATime ==
    Cardinality({i \in DOMAIN reqs : InOperation(i)}) <= 1

\* what the handler does not get wrong: a request that is not a POST is
\* answered 405 and an unrecognised difficulty 400, neither with a call of
\* Generate
Generate_rejects ==
    \A i \in DOMAIN reqs :
        LET h == reqs[i]
        IN  /\ (h.req.h = "generate" /\ h.pc # "recv" /\ h.req.method # MethodPost)
                  => (h.status = StatusMethodNotAllowed /\ ~h.generated)
            /\ (h.req.h = "generate" /\ h.pc # "recv" /\ h.req.method = MethodPost
                    /\ h.req.json /\ h.req.difficulty \notin {"", Easy, Medium, Hard})
                  => (h.status = StatusBadRequest /\ ~h.generated)

\* C20 as stated: POST /generate with the difficulty omitted or empty
\* generates a Medium puzzle; an unrecognised difficulty is answered 400 and
\* a request that is not a POST 405, both without generating.
C20_GenerateDefaultsToMedium ==
    /\ Generate_rejects
    /\ \A i \in DOMAIN reqs :
          (reqs[i].req.h = "generate" /\ reqs[i].req.difficulty = "" /\ reqs[i].generated)
              => reqs[i].d = Medium

(***************************************************************************)
(* NewGrid(size, boxRows, boxCols) over dimensions of every kind: zero and *)
(* negative, a box that does not multiply to the size, sizes up to and     *)
(* beyond MaxGridSize.                                                     *)
(***************************************************************************)
\* largest size passed to NewGrid
MaxSize == 26
\* largest box side passed to NewGrid
MaxSide == 13

InitNewGrid ==
    /\ fn = "NewGrid"
    /\ pc = "start"
    /\ dims \in (-1..MaxSize) \X (-1..MaxSide) \X (-1..MaxSide)
    /\ b = None
    /\ g = None
    /\ s = None
    /\ d = None
    /\ limit = None
    /\ ret = None
    /\ Idle
    /\ Unshared

NewGrid_call ==
    /\ pc = "start"
    /\ fn = "NewGrid"
    /\ ret' = NewGrid(dims[1], dims[2], dims[3])
    /\ pc' = "done"
    /\ UNCHANGED <<args, env, s, search, gen>>

NextNewGrid == NewGrid_call

SpecNewGrid == InitNewGrid /\ [][NextNewGrid]_vars

\* the dimensions the claim says NewGrid accepts
GoodDims(size, boxRows, boxCols) ==
    /\ size > 0
    /\ boxRows > 0
    /\ boxCols > 0
    /\ size = boxRows * boxCols
    /\ size <= 25

\* C19: NewGrid returns an error and the zero Grid unless size > 0,
\* boxRows > 0, boxCols > 0, size = boxRows * boxCols and size <= 25; on
\* success the grid has size rows of size cells, all 0, and the dimensions
\* given.
C19_NewGridChecksDims ==
    (pc = "done" /\ fn = "NewGrid") =>
        IF GoodDims(dims[1], dims[2], dims[3])
        THEN /\ ret[2] = Nil
             /\ ret[1].Size = dims[1]
             /\ ret[1].BoxRows = dims[2]
             /\ ret[1].BoxCols = dims[3]
             /\ ret[1].Cells = [r \in 0..(dims[1] - 1) |-> [c \in 0..(dims[1] - 1) |-> 0]]
        ELSE /\ ret[2] # Nil
             /\ ret[1].Size = 0
             /\ ret[1].BoxRows = 0
             /\ ret[1].BoxCols = 0
             /\ ret[1].Cells = <<>>

\* NewGrid(26, 2, 13) was refused: the product matches, the size is too large
C19_Witness ==
    /\ pc = "done"
    /\ fn = "NewGrid"
    /\ dims = <<26, 2, 13>>
    /\ ret[2] # Nil

(***************************************************************************)
(* The Board functions next to the Grid methods on a 9x9 grid with 3x3     *)
(* boxes: each call is made on a Board and on the Grid with the same       *)
(* cells, and ret holds the two results.                                   *)
(***************************************************************************)
\* the Grid with the cells of brd
AsGrid(brd) == MkGrid(9, 3, 3, brd)

PairCalls == {"Validate", "FromString", "hasUniqueSolution", "Solve", "cluesFor"}

InitPair ==
    /\ pc = "start"
    /\ ret = None
    /\ g = None
    /\ dims = <<9, 3, 3>>
    /\ seed = None
    /\ heap = None
    /\ seen = None
    /\ reqs = None
    /\ Idle
    /\ fn \in PairCalls
    /\ b \in CASE fn = "Validate" -> ValidateBoards(MaxClues)
               [] fn = "hasUniqueSolution" -> SearchBoards(MaxEmpty)
               [] fn = "Solve" -> SolveBoards(MaxEmpty)
               [] OTHER -> {None}
    /\ s \in (IF fn = "FromString" THEN ParseBoardStrings(MaxClues) ELSE {None})
    /\ limit \in (IF fn = "hasUniqueSolution" THEN Limits ELSE {None})
    /\ d \in (IF fn = "cluesFor" THEN Difficulties \cup {"expert"} ELSE {None})
    /\ globalRand \in (IF fn = "Solve" THEN SomeRandStates ELSE {None})

Pair_Validate ==
    /\ pc = "start"
    /\ fn = "Validate"
    /\ ret' = <<Validate(b), Grid_Validate(AsGrid(b))>>
    /\ pc' = "done"
    /\ UNCHANGED <<args, env, s, search, gen>>

\* both parsers, and String() of what each returned
Pair_FromString ==
    /\ pc = "start"
    /\ fn = "FromString"
    /\ LET brd == FromString(s)
           gr == FromStringN(s, dims[1], dims[2], dims[3])
       IN  ret' = <<brd, gr, Board_String(brd[1]), Grid_String(gr[1])>>
    /\ pc' = "done"
    /\ UNCHANGED <<args, env, s, search, gen>>

Pair_hasUniqueSolution ==
    /\ pc = "start"
    /\ fn = "hasUniqueSolution"
    /\ ret' = <<hasUniqueSolution(b, limit), Grid_hasUniqueSolution(AsGrid(b), AsGrid(b), limit)>>
    /\ pc' = "done"
    /\ UNCHANGED <<args, env, s, search, gen>>

\* Solve(b), then Solve of the Grid with the source where Solve(b) left it
Pair_Solve ==
    /\ pc = "start"
    /\ fn = "Solve"
    /\ LET run == Solve_run(b, globalRand)
           grun == Grid_Solve_run(AsGrid(b), run.st)
       IN  /\ ret' = <<run.ret, grun.ret>>
           /\ globalRand' = grun.st
    /\ pc' = "done"
    /\ UNCHANGED <<args, reqs, dims, seed, heap, seen, s, search, gen>>

Pair_cluesFor ==
    /\ pc = "start"
    /\ fn = "cluesFor"
    /\ ret' = <<cluesFor(d), Grid_cluesFor(AsGrid(ZeroBoard), d)>>
    /\ pc' = "done"
    /\ UNCHANGED <<args, env, s, search, gen>>

NextPair ==
    Pair_Validate \/ Pair_FromString \/ Pair_hasUniqueSolution \/ Pair_Solve \/ Pair_cluesFor

SpecPair == InitPair /\ [][NextPair]_vars

\* C18: for size 9 with 3x3 boxes the Board functions and the Grid methods
\* agree: Validate and Grid.Validate accept the same cells, FromString(s) and
\* FromStringN(s, 9, 3, 3) accept the same strings and give the same cells
\* and the same String(), the uniqueness checks return the same boolean,
\* Solve succeeds on the same inputs, and the clue targets are equal.
C18_BoardAgreesWithGrid ==
    pc = "done" =>
        CASE fn = "Validate" -> (ret[1] = Nil) <=> (ret[2] = Nil)
          [] fn = "FromString" ->
                /\ (ret[1][2] = Nil) <=> (ret[2][2] = Nil)
                /\ ret[1][2] = Nil =>
                      /\ ret[2][1].Size = 9
                      /\ ret[2][1].BoxRows = 3
                      /\ ret[2][1].BoxCols = 3
                      /\ ret[2][1].Cells = ret[1][1]
                      /\ ret[3] = ret[4]
          [] fn = "hasUniqueSolution" -> ret[1] = ret[2]
          [] fn = "Solve" -> ret[1][2] = ret[2][2]
          [] fn = "cluesFor" -> ret[1] = ret[2]
          [] OTHER -> TRUE

\* a string with an empty cell was accepted by both parsers
C18_Witness ==
    /\ pc = "done"
    /\ fn = "FromString"
    /\ ret[1][2] = Nil
    /\ \E i \in 1..81 : s[i] = ByteDot
    /\ \E i \in 1..81 : s[i] = Byte0 + 9

(***************************************************************************)
(* C21: POST /solve answers 405 to a method other than POST; 400 to a body *)
(* that does not decode, to a body with neither puzzle nor string, to a    *)
(* puzzle that fails Validate and to a string that fails FromString; 422   *)
(* to a valid board without solution; 200 with the solution otherwise.     *)
(* A puzzle array is taken before a string, and Solve is not called on a   *)
(* board that fails Validate.                                              *)
(***************************************************************************)
\* the board a /solve request asks about, from the rule: the puzzle if there
\* is one, else the string's cells; <<>> if there is none or it is not legal
AskedBoard(rq) ==
    IF rq.puzzle # <<>>
    THEN IF Legal(rq.puzzle[1], 9, 3, 3) THEN rq.puzzle ELSE <<>>
    ELSE IF Len(rq.string) = 81 /\ ~IllFormed(rq.string, 9)
            /\ Legal(Decoded(rq.string, 9), 9, 3, 3)
    THEN <<Decoded(rq.string, 9)>>
    ELSE <<>>

\* the status the claim gives a /solve request
SolveStatus(rq) ==
    IF rq.method # MethodPost THEN 405
    ELSE IF ~rq.json \/ AskedBoard(rq) = <<>> THEN 400
    ELSE IF NumCompletions(AskedBoard(rq)[1], 9, 3, 3, 1) = 0 THEN 422
    ELSE 200

C21_SolveStatuses ==
    \A i \in DOMAIN reqs :
        LET h == reqs[i]
        IN  h.req.h = "solve" =>
                /\ h.pc = "done" =>
                      /\ h.status = SolveStatus(h.req)
                      /\ h.status = 200 =>
                            /\ h.solution # <<>>
                            /\ Completes(AskedBoard(h.req)[1], h.solution[1], 9)
                            /\ Legal(h.solution[1], 9, 3, 3)
                /\ h.pc = "Solve" =>
                      /\ h.req.method = MethodPost
                      /\ h.brd = AskedBoard(h.req)
                      /\ h.brd # <<>>

\* a request with an illegal puzzle array and a string that parses was
\* answered 400: the puzzle array was the one looked at
C21_Witness ==
    \E i \in DOMAIN reqs :
        /\ reqs[i].req.h = "solve"
        /\ reqs[i].req.puzzle # <<>>
        /\ Len(reqs[i].req.string) = 81
        /\ reqs[i].pc = "done"
        /\ reqs[i].status = 400

\* C22 as stated: for square boxes (boxRows = boxCols) the solver completes
\* every seed-filled grid, so Generate never records the failure "failed to
\* build solved board / grid"; only rectangular boxes can produce it.
C22_SquareSeedsCompletable ==
    (IF fn = "Generate" THEN TRUE
     ELSE IF fn = "Grid.Generate" THEN g.BoxRows = g.BoxCols
     ELSE FALSE)
        => lastErr \notin {"failed to build solved board", "failed to build solved grid"}

(***************************************************************************)
(* The seed: the grid fillDiagonalBoxes leaves, before backtrack runs.     *)
(***************************************************************************)
\* Generate has filled the diagonal boxes and is about to call backtrack
Seeded == pc = "backtrack" /\ stack = <<>> /\ fn \in {"Generate", "Grid.Generate"}

\* the cells of diagonal box i
SeedBox(i, boxRows, boxCols) ==
    ((i * boxRows)..(i * boxRows + boxRows - 1)) \X ((i * boxCols)..(i * boxCols + boxCols - 1))

SeedShape(cells, size, boxRows, boxCols) ==
    LET steps == Min(size \div boxRows, size \div boxCols)
        boxes == UNION {SeedBox(i, boxRows, boxCols) : i \in 0..(steps - 1)}
    IN  /\ \A i \in 0..(steps - 1) : \A v \in 1..size :
              Cardinality({p \in SeedBox(i, boxRows, boxCols) : cells[p[1]][p[2]] = v}) = 1
        /\ \A p \in AllCells(size) \ boxes : cells[p[1]][p[2]] = 0
        /\ \A p, q \in AllCells(size) :
              (cells[p[1]][p[2]] # 0 /\ cells[q[1]][q[2]] # 0
                  /\ (p[1] = q[1] \/ p[2] = q[2])) =>
                 \E i \in 0..(steps - 1) : {p, q} \subseteq SeedBox(i, boxRows, boxCols)

(***************************************************************************)
(* C23: after the seed fill of an empty grid each of the                   *)
(* min(size/boxRows, size/boxCols) diagonal boxes holds every value        *)
(* 1..size exactly once, every other cell is 0, the grid passes Validate,  *)
(* and two filled cells of one row or one column lie in the same box.      *)
(***************************************************************************)
C23_SeedFill ==
    /\ (Seeded /\ fn = "Grid.Generate") =>
          /\ SeedShape(work.Cells, g.Size, g.BoxRows, g.BoxCols)
          /\ Grid_Validate(work) = Nil
    /\ (Seeded /\ fn = "Generate") =>
          /\ SeedShape(work, 9, 3, 3)
          /\ Validate(work) = Nil

\* a 6x6 grid with 2x3 boxes seeded: two boxes, the third row of boxes empty
C23_Witness ==
    /\ Seeded
    /\ fn = "Grid.Generate"
    /\ g.Size = 6
    /\ g.BoxRows = 2
    /\ work.Cells[2][3] # 0
    /\ work.Cells[4][0] = 0

\* every non-zero cell of the puzzle is the cell of the solved base grid
FromBase(pz, base, size) ==
    \A p \in AllCells(size) : pz[p[1]][p[2]] # 0 => pz[p[1]][p[2]] = base[p[1]][p[2]]

(***************************************************************************)
(* C24: at every turn of the carve loop and at the final check the puzzle  *)
(* has exactly one solution, the solved base grid, and every non-zero cell *)
(* of the puzzle is the base grid's cell, also right after a removal; so   *)
(* the final check passes and "puzzle uniqueness not achieved" is never    *)
(* recorded.                                                               *)
(***************************************************************************)
C24_CarveKeepsUnique ==
    /\ (fn = "Generate" /\ pc \in {"carve", "unique", "final"}) =>
          /\ FromBase(puzzle, work, 9)
          /\ Empties(work, 9) = {}
          /\ Validate(work) = Nil
          /\ pc # "unique" => OneCompletion(puzzle, 9, 3, 3)
          /\ pc = "final" => hasUniqueSolution(puzzle, 2)
    /\ (fn = "Grid.Generate" /\ pc \in {"carve", "unique", "final"}) =>
          /\ FromBase(puzzle.Cells, work.Cells, g.Size)
          /\ Empties(work.Cells, g.Size) = {}
          /\ Grid_Validate(work) = Nil
          /\ pc # "unique" => OneCompletion(puzzle.Cells, g.Size, g.BoxRows, g.BoxCols)
          /\ pc = "final" => Grid_hasUniqueSolution(g, puzzle, 2)
    /\ fn \in {"Generate", "Grid.Generate"} => lastErr # "puzzle uniqueness not achieved"

\* a 6x6 carve in which the last removal was undone and an earlier one kept
C24_Witness ==
    /\ fn = "Grid.Generate"
    /\ pc = "carve"
    /\ g.Size = 6
    /\ ri > 0
    /\ puzzle.Cells[rmOrder[ri - 1] \div 6][rmOrder[ri - 1] % 6] # 0
    /\ CountClues(puzzle.Cells, 6) < 36
    /\ OneCompletion(puzzle.Cells, 6, 2, 3)

(***************************************************************************)
(* hasUniqueSolution(b, limit) and g.hasUniqueSolution(w, limit), one step *)
(* of dfs at a time.  A call of dfs in progress is a frame of stack: its   *)
(* cell and the value v of its loop.                                       *)
(***************************************************************************)
\* a faulty variant: no early exit
dfs_exit_never(n, lim) == FALSE

\* "return count >= limit" after count++
dfs_exit(n, lim) == n >= lim

\* hasUniqueSolution: count := 0, the copy, then dfs on it
hasUniqueSolution_start ==
    /\ pc = "start"
    /\ fn = "hasUniqueSolution"
    /\ work' = b
    /\ count' = 0
    /\ stack' = <<>>
    /\ pc' = "dfs"
    /\ UNCHANGED <<args, env, s, ret, found, gen>>

\* dfs is entered: an empty cell opens the loop over v; none left counts a
\* solution and returns count >= limit, true through every caller, false to
\* the caller, which clears its cell and goes on with its next v
hasUniqueSolution_dfs ==
    /\ pc = "dfs"
    /\ fn = "hasUniqueSolution"
    /\ LET e == findEmpty(work)
       IN  IF e.ok
           THEN /\ stack' = Append(stack, [r |-> e.r, c |-> e.c, v |-> 1])
                /\ pc' = "loop"
                /\ UNCHANGED <<work, count, found>>
           ELSE /\ count' = count + 1
                /\ IF dfs_exit(count + 1, limit)
                   THEN /\ found' = TRUE
                        /\ stack' = <<>>
                        /\ pc' = "return"
                        /\ work' = work
                   ELSE IF stack = <<>>
                   THEN /\ found' = FALSE
                        /\ pc' = "return"
                        /\ UNCHANGED <<work, stack>>
                   ELSE /\ work' = SetCell(work, top.r, top.c, 0)
                        /\ stack' = [stack EXCEPT ![Len(stack)].v = @ + 1]
                        /\ pc' = "loop"
                        /\ found' = found
    /\ UNCHANGED <<args, env, s, ret, gen>>

\* one turn of "for v := 1; v <= 9; v++": a safe v is written and dfs
\* called, an unsafe one is passed over; past the last v dfs returns false
hasUniqueSolution_for ==
    /\ pc = "loop"
    /\ fn = "hasUniqueSolution"
    /\ IF top.v > 9
       THEN IF Len(stack) = 1
            THEN /\ found' = FALSE
                 /\ stack' = <<>>
                 /\ pc' = "return"
                 /\ work' = work
            ELSE LET rest == SubSeq(stack, 1, Len(stack) - 1)
                     caller == rest[Len(rest)]
                 IN  /\ work' = SetCell(work, caller.r, caller.c, 0)
                     /\ stack' = [rest EXCEPT ![Len(rest)].v = @ + 1]
                     /\ pc' = "loop"
                     /\ found' = found
       ELSE IF isSafe(work, top.r, top.c, top.v)
       THEN /\ work' = SetCell(work, top.r, top.c, top.v)
            /\ pc' = "dfs"
            /\ UNCHANGED <<stack, found>>
       ELSE /\ stack' = [stack EXCEPT ![Len(stack)].v = @ + 1]
            /\ pc' = "loop"
            /\ UNCHANGED <<work, found>>
    /\ UNCHANGED <<args, env, s, ret, count, gen>>

\* return count == 1
hasUniqueSolution_return ==
    /\ pc = "return"
    /\ fn = "hasUniqueSolution"
    /\ ret' = (count = 1)
    /\ pc' = "done"
    /\ UNCHANGED <<args, env, s, search, gen>>

\* Grid.hasUniqueSolution: count := 0, the copy, then dfs on it
Grid_hasUniqueSolution_start ==
    /\ pc = "start"
    /\ fn = "Grid.hasUniqueSolution"
    /\ work' = Grid_Clone(g)
    /\ count' = 0
    /\ stack' = <<>>
    /\ pc' = "dfs"
    /\ UNCHANGED <<args, env, s, ret, found, gen>>

\* dfs is entered: an empty cell opens the loop over v; none left counts a
\* solution and returns count >= limit, true through every caller, false to
\* the caller, which clears its cell and goes on with its next v
Grid_hasUniqueSolution_dfs ==
    /\ pc = "dfs"
    /\ fn = "Grid.hasUniqueSolution"
    /\ LET e == Grid_findEmpty(g, work)
       IN  IF e.ok
           THEN /\ stack' = Append(stack, [r |-> e.r, c |-> e.c, v |-> 1])
                /\ pc' = "loop"
                /\ UNCHANGED <<work, count, found>>
           ELSE /\ count' = count + 1
                /\ IF dfs_exit(count + 1, limit)
                   THEN /\ found' = TRUE
                        /\ stack' = <<>>
                        /\ pc' = "return"
                        /\ work' = work
                   ELSE IF stack = <<>>
                   THEN /\ found' = FALSE
                        /\ pc' = "return"
                        /\ UNCHANGED <<work, stack>>
                   ELSE /\ work' = [work EXCEPT !.Cells = SetCell(@, top.r, top.c, 0)]
                        /\ stack' = [stack EXCEPT ![Len(stack)].v = @ + 1]
                        /\ pc' = "loop"
                        /\ found' = found
    /\ UNCHANGED <<args, env, s, ret, gen>>

\* one turn of "for v := 1; v <= g.Size; v++": a safe v is written and dfs
\* called, an unsafe one is passed over; past the last v dfs returns false
Grid_hasUniqueSolution_for ==
    /\ pc = "loop"
    /\ fn = "Grid.hasUniqueSolution"
    /\ IF top.v > g.Size
       THEN IF Len(stack) = 1
            THEN /\ found' = FALSE
                 /\ stack' = <<>>
                 /\ pc' = "return"
                 /\ work' = work
            ELSE LET rest == SubSeq(stack, 1, Len(stack) - 1)
                     caller == rest[Len(rest)]
                 IN  /\ work' = [work EXCEPT !.Cells = SetCell(@, caller.r, caller.c, 0)]
                     /\ stack' = [rest EXCEPT ![Len(rest)].v = @ + 1]
                     /\ pc' = "loop"
                     /\ found' = found
       ELSE IF Grid_isSafe(g, work, top.r, top.c, top.v)
       THEN /\ work' = [work EXCEPT !.Cells = SetCell(@, top.r, top.c, top.v)]
            /\ pc' = "dfs"
            /\ UNCHANGED <<stack, found>>
       ELSE /\ stack' = [stack EXCEPT ![Len(stack)].v = @ + 1]
            /\ pc' = "loop"
            /\ UNCHANGED <<work, found>>
    /\ UNCHANGED <<args, env, s, ret, count, gen>>

\* return count == 1
Grid_hasUniqueSolution_return ==
    /\ pc = "return"
    /\ fn = "Grid.hasUniqueSolution"
    /\ ret' = (count = 1)
    /\ pc' = "done"
    /\ UNCHANGED <<args, env, s, search, gen>>

NextCount ==
    \/ hasUniqueSolution_start \/ hasUniqueSolution_dfs
    \/ hasUniqueSolution_for \/ hasUniqueSolution_return
    \/ Grid_hasUniqueSolution_start \/ Grid_hasUniqueSolution_dfs
    \/ Grid_hasUniqueSolution_for \/ Grid_hasUniqueSolution_return

SpecCount == InitUnique /\ [][NextCount]_vars

\* the steps count what the recursive definition counts
CountAgrees ==
    /\ (fn = "hasUniqueSolution" /\ pc \in {"return", "done"}) => count = dfs(b, 0, limit).count
    /\ (fn = "Grid.hasUniqueSolution" /\ pc \in {"return", "done"}) =>
          count = Grid_dfs(g, Grid_Clone(g), 0, limit).count

(***************************************************************************)
(* C25: for limit >= 1 the counter of the uniqueness search never exceeds  *)
(* limit, and the search stops as soon as the counter reaches limit: dfs   *)
(* has returned true through every caller and no cell is tried after it.   *)
(***************************************************************************)
C25_CountWithinLimit ==
    (fn \in {"hasUniqueSolution", "Grid.hasUniqueSolution"} /\ limit >= 1) =>
        /\ count <= limit
        /\ count = limit => (pc \in {"return", "done"} /\ found /\ stack = <<>>)
        /\ pc = "done" => ret = (count = 1)

\* the empty 3x3 grid has 12 completions: the search stopped at the second
C25_Witness ==
    /\ fn = "Grid.hasUniqueSolution"
    /\ pc = "return"
    /\ limit = 2
    /\ count = 2
    /\ g.Size = 3
    /\ CountClues(g.Cells, 3) = 0
    /\ CountClues(work.Cells, 3) = 9

\* v is in another cell of the row, the column or the box of cell (r, c)
Occurs(cells, size, boxRows, boxCols, r, c, v) ==
    \E p \in AllCells(size) :
        /\ p # <<r, c>>
        /\ cells[p[1]][p[2]] = v
        /\ \/ p[1] = r
           \/ p[2] = c
           \/ (p[1] \div boxRows = r \div boxRows /\ p[2] \div boxCols = c \div boxCols)

\* the call of backtrack that is frame i has written its cell
Written(i) == i < Len(stack) \/ pc = "backtrack"

\* every frame's cell is the first empty cell of its call in row-major
\* order, and the value a frame has written is one it tried, found in no
\* other cell of its row, column and box
FirstEmptySafeValue(cells, size, boxRows, boxCols) ==
    \A i \in 1..Len(stack) :
        LET f == stack[i]
        IN  /\ \A p \in AllCells(size) :
                  p[1] * size + p[2] < f.r * size + f.c => cells[p[1]][p[2]] # 0
            /\ Written(i) =>
                  /\ cells[f.r][f.c] \in f.tried
                  /\ ~Occurs(cells, size, boxRows, boxCols, f.r, f.c, cells[f.r][f.c])
            /\ ~Written(i) => cells[f.r][f.c] = 0

(***************************************************************************)
(* C26: the solver always assigns the first empty cell in row-major order: *)
(* in every search state each cell before the cell being tried is          *)
(* non-zero, and a value is written only if it does not already occur in   *)
(* the cell's row, column or box.                                          *)
(***************************************************************************)
C26_FirstEmptyCellSafeValue ==
    /\ fn = "Solve" => FirstEmptySafeValue(work, 9, 3, 3)
    /\ fn = "Grid.Solve" => FirstEmptySafeValue(work.Cells, g.Size, g.BoxRows, g.BoxCols)

\* a 4x4 search two calls deep, a given between their cells, back in the
\* inner call after a value of it failed
C26_Witness ==
    /\ fn = "Grid.Solve"
    /\ pc = "vals"
    /\ g.Size = 4
    /\ Len(stack) >= 2
    /\ top.tried # {}
    /\ (stack[2].r * 4 + stack[2].c) - (stack[1].r * 4 + stack[1].c) > 1

\* the cells of the working grid and of the grid Solve was given
WorkCells == IF fn = "Solve" THEN work ELSE work.Cells
InputCells == IF fn = "Solve" THEN b ELSE g.Cells

\* the working grid at the entry of the call of backtrack that is frame i:
\* the input with the cells its callers have written
EntryCellsOf(st, cells, i) ==
    [r \in DOMAIN InputCells |-> [c \in DOMAIN InputCells[r] |->
        IF \E j \in 1..(i - 1) : st[j].r = r /\ st[j].c = c
        THEN cells[r][c]
        ELSE InputCells[r][c]]]

EntryCells(i) == EntryCellsOf(stack, WorkCells, i)

\* the innermost call has no value left and is about to return false
ReturnsFalse ==
    /\ pc = "vals"
    /\ IF fn = "Solve"
       THEN \A v \in (1..9) \ top.tried : ~isSafe(work, top.r, top.c, v)
       ELSE \A v \in (1..g.Size) \ top.tried : ~Grid_isSafe(g, work, top.r, top.c, v)

\* a call is entered on its entry grid, the entry grid of a call in
\* progress does not change, and a call returns false on its entry grid
C27_Step ==
    fn \in {"Solve", "Grid.Solve"} =>
        /\ Len(stack') = Len(stack) + 1 =>
              (work' = work /\ WorkCells' = EntryCellsOf(stack', WorkCells', Len(stack')))
        /\ \A i \in 1..Min(Len(stack), Len(stack')) : EntryCellsOf(stack', WorkCells', i) = EntryCells(i)
        /\ (pc = "vals" /\ Len(stack') < Len(stack)) => WorkCells = EntryCells(Len(stack))

(***************************************************************************)
(* C27: when a call of backtrack returns false, the working grid is        *)
(* exactly as it was at the entry of that call.                            *)
(***************************************************************************)
C27_FalseRestoresGrid == [][C27_Step]_vars

\* an inner call that has written values is about to return false
C27_Witness ==
    /\ fn = "Grid.Solve"
    /\ Len(stack) >= 2
    /\ ReturnsFalse
    /\ top.tried # {}
    /\ WorkCells = EntryCells(Len(stack))

(***************************************************************************)
(* Solve runs in the caller's goroutine from its first statement to its    *)
(* return: a step that can be taken is taken.                              *)
(***************************************************************************)
SolvePCs == {"start", "backtrack", "vals", "return", "done"}

\* the steps of NextSolve: each of them leaves "vals" or changes pc
SolveStep == (pc = "vals" \/ pc' \in SolvePCs \ {pc}) /\ NextSolve

\* before the call: the results and the working copy hold their zero values
InitSolveFair ==
    /\ pc = "start"
    /\ s = None
    /\ d = None
    /\ limit = None
    /\ stack = <<>>
    /\ found = FALSE
    /\ count = 0
    /\ attempts = 0
    /\ try = 0
    /\ lastErr = Nil
    /\ target = 0
    /\ puzzle = None
    /\ rmOrder = <<>>
    /\ ri = 0
    /\ old = 0
    /\ dims = None
    /\ Unshared
    /\ \/ /\ fn = "Solve"
          /\ b \in SolveBoards(MaxEmpty)
          /\ g = None
          /\ work = ZeroBoard
          /\ ret = <<ZeroBoard, FALSE>>
       \/ /\ fn = "Grid.Solve"
          /\ g \in SolveGrids(MaxEmpty, MaxGivens)
          /\ b = None
          /\ work = ZeroGrid
          /\ ret = <<ZeroGrid, FALSE>>

SpecSolveFair == InitSolveFair /\ [][NextSolve]_vars /\ WF_<<pc, stack>>(SolveStep)

\* a call writes a value it has not written before, and strikes it
WritesNewValue ==
    (fn \in {"Solve", "Grid.Solve"} /\ pc = "vals" /\ pc' = "backtrack") =>
        /\ WorkCells'[top.r][top.c] \notin top.tried
        /\ stack'[Len(stack)].tried = top.tried \cup {WorkCells'[top.r][top.c]}

(***************************************************************************)
(* C28: every call of Solve terminates, for every input grid: it returns   *)
(* success or failure, and no call of backtrack writes the same value      *)
(* twice into its cell (no partial assignment is visited again).           *)
(***************************************************************************)
C28_SolveTerminates ==
    /\ <>(pc = "done" /\ ret[2] \in BOOLEAN)
    /\ [][WritesNewValue]_vars

\* a search that went back at least once has returned failure
C28_Witness ==
    /\ fn = "Grid.Solve"
    /\ pc = "done"
    /\ ret[2] = FALSE
    /\ CountClues(g.Cells, g.Size) > 0
    /\ Cardinality(Empties(g.Cells, g.Size)) >= 2

\* C29 as stated: FromStringN succeeds only for the dimensions NewGrid
\* accepts (size > 0, boxRows > 0, boxCols > 0, size = boxRows * boxCols,
\* size <= 25), and for any other dimensions it returns an error, neither a
\* grid nor a panic.
C29_ParseChecksDims ==
    (pc = "done" /\ fn = "FromStringN") =>
        /\ ret[2] = Nil => NewGrid(dims[1], dims[2], dims[3])[2] = Nil
        /\ NewGrid(dims[1], dims[2], dims[3])[2] # Nil => Failed

(***************************************************************************)
(* g.Generate(d, attempts) on a receiver that already holds a cell.        *)
(***************************************************************************)
\* the 4x4 grids with 2x2 boxes that pass Validate and hold at most k
\* cells, all in the box right of the first diagonal box
ReceiverGrids(k) ==
    {gr \in {MkGrid(4, 2, 2, m) : m \in SparseCells(4, (0..1) \X (2..3), 1..4, k)} :
        Grid_Validate(gr) = Nil}

InitReceiver ==
    /\ pc = "start"
    /\ ret = None
    /\ s = None
    /\ limit = None
    /\ work = None
    /\ stack = <<>>
    /\ found = FALSE
    /\ count = 0
    /\ try = 0
    /\ lastErr = Nil
    /\ target = 0
    /\ puzzle = None
    /\ rmOrder = <<>>
    /\ ri = 0
    /\ old = 0
    /\ dims = None
    /\ Unshared
    /\ d \in Difficulties
    /\ fn = "Grid.Generate"
    /\ g \in ReceiverGrids(MaxReceiverCells)
    /\ b = None
    /\ attempts = 1

NextReceiver ==
    \/ Grid_Generate \/ Grid_Generate_attempt \/ Grid_Generate_exhausted
    \/ Grid_backtrack \/ Grid_backtrack_place \/ Grid_backtrack_fail
    \/ Grid_Generate_unsolved \/ Grid_Generate_solved
    \/ Grid_Generate_carved \/ Grid_Generate_carve \/ Grid_Generate_unique
    \/ Grid_Generate_final

SpecReceiver == InitReceiver /\ [][NextReceiver]_vars

\* C30 as stated: for any receiver, also one that holds non-zero cells, a
\* successful g.Generate returns a puzzle that passes Validate and has
\* exactly one solution.
C30_ReceiverCellsIgnored ==
    (pc = "done" /\ fn = "Grid.Generate" /\ ret[2] = Nil) =>
        /\ Grid_Validate(ret[1]) = Nil
        /\ OneCompletion(ret[1].Cells, g.Size, g.BoxRows, g.BoxCols)

====
